---- MODULE Spec2Model ----
(***************************************************************************)
(* Model of jompose / kube-compose: the volume-initialisation pipeline     *)
(* (tar materializer, Dockerfile generation, host-path resolver) and the   *)
(* in-memory file system's EvalSymlinks.                                   *)
(*                                                                         *)
(* Go strings are TLA+ strings (TLC evaluates Len, SubSeq and \o on them), *)
(* so prefix tests, slicing and concatenation are modelled byte for byte.  *)
(***************************************************************************)
EXTENDS Integers, Sequences, FiniteSets, TLC

VARIABLES
    pc,              \* position of the running operation
    fs,              \* the file tree: a sequence of nodes in enumeration (insertion) order
    hostFile,        \* bindMouseHostFileToTar: argument hostFile (h.rootHostFile)
    renameTo,        \* bindMouseHostFileToTar: argument renameTo (h.renameTo)
    tw,              \* the tar writer: [entries, err]
    twMayBeCorrupt,  \* h.twMayBeCorrupt
    call,            \* pending runRecursive call: <<[hostFile, fileNameInTar]>> or <<>>
    stack,           \* active runDirectory frames: [hostFile, name, entries]
    openFds,         \* host paths of the file handles that are open
    err,             \* the error value being returned ("" is nil)
    isDir,           \* the isDir result
    hist,            \* history of the materializer call: [walkErr, recovery, nWalk]
    df,              \* buildVolumeInitImageGetDockerfile: [isDirSlice, b, i]
    rs,              \* resolveBindVolumeHostPath: [name, parts, i, result, ret, err, absErr]
    ev,              \* evalSymlinksHelper: [path, n, links, resolved, nameRem, err, subst]
    mk,              \* InMemoryFileSystem.Mkdir / MkdirAll: the call under way and its result
    img,             \* buildVolumeInitImage: the build response stream and the result
    cfg,             \* Config: the services, their depends_on edges and filter flags
    wc,              \* isFileWithinBindHostRoot: the arguments and the answer
    ctx,             \* buildVolumeInitImageGetBuildContext: the buffer, its writer, the result
    dk               \* PullImage / PushImage: the reader and the result

vars == <<pc, fs, hostFile, renameTo, tw, twMayBeCorrupt, call, stack, openFds,
          err, isDir, hist, df, rs, ev, mk, img, cfg, wc, ctx, dk>>

restVars == <<mk, img, cfg, wc, ctx, dk>>

tarVars == <<hostFile, renameTo, tw, twMayBeCorrupt, call, stack, openFds, err, isDir, hist>>

-----------------------------------------------------------------------------
(* Strings: package strings and path/filepath on a build without volumes.  *)

Sep == "/"

CharAt(s, i) == SubSeq(s, i, i)

HasPrefix(s, p) == Len(p) <= Len(s) /\ SubSeq(s, 1, Len(p)) = p

\* strings.IndexByte, 1-based; 0 when c does not occur (Go: -1).
IndexByte(s, c) ==
    IF \E i \in 1..Len(s) : CharAt(s, i) = c
    THEN CHOOSE i \in 1..Len(s) :
            /\ CharAt(s, i) = c
            /\ \A j \in 1..(i - 1) : CharAt(s, j) # c
    ELSE 0

LastIndexByte(s, c) ==
    IF \E i \in 1..Len(s) : CharAt(s, i) = c
    THEN CHOOSE i \in 1..Len(s) :
            /\ CharAt(s, i) = c
            /\ \A j \in (i + 1)..Len(s) : CharAt(s, j) # c
    ELSE 0

RECURSIVE Split(_, _)
\* strings.Split(s, sep) for a one-byte sep: "" gives <<"">>, "/a" gives <<"", "a">>.
Split(s, c) ==
    LET k == IndexByte(s, c)
    IN  IF k = 0 THEN <<s>>
        ELSE <<SubSeq(s, 1, k - 1)>> \o Split(SubSeq(s, k + 1, Len(s)), c)

RECURSIVE JoinStrings(_, _)
\* strings.Join
JoinStrings(parts, sep) ==
    IF Len(parts) = 0 THEN ""
    ELSE IF Len(parts) = 1 THEN parts[1]
    ELSE parts[1] \o sep \o JoinStrings(Tail(parts), sep)

\* filepath.VolumeName: always empty on a non-Windows build.
VolumeName(p) == ""

IsAbs(p) == HasPrefix(p, Sep)

RECURSIVE CleanComps(_, _, _)
\* The element stack of filepath.Clean: "." and empty elements dropped, ".." pops.
CleanComps(comps, rooted, out) ==
    IF Len(comps) = 0 THEN out
    ELSE LET c == Head(comps)
             rest == Tail(comps)
         IN  IF c = "" \/ c = "." THEN CleanComps(rest, rooted, out)
             ELSE IF c = ".."
                  THEN IF Len(out) > 0 /\ out[Len(out)] # ".."
                       THEN CleanComps(rest, rooted, SubSeq(out, 1, Len(out) - 1))
                       ELSE IF rooted THEN CleanComps(rest, rooted, out)
                       ELSE CleanComps(rest, rooted, Append(out, ".."))
                  ELSE CleanComps(rest, rooted, Append(out, c))

\* filepath.Clean
Clean(p) ==
    LET rooted == IsAbs(p)
        out == JoinStrings(CleanComps(Split(p, Sep), rooted, <<>>), Sep)
    IN  IF rooted THEN Sep \o out
        ELSE IF out = "" THEN "." ELSE out

\* filepath.Dir
Dir(p) ==
    LET k == LastIndexByte(p, Sep)
    IN  Clean(SubSeq(p, 1, k))

\* filepath.Base, which is os.FileInfo.Name() of the file Lstat was given.
Base(p) ==
    LET comps == CleanComps(Split(p, Sep), TRUE, <<>>)
    IN  IF p = "" THEN "."
        ELSE IF Len(comps) = 0 THEN Sep
        ELSE comps[Len(comps)]

\* filepath.Join of two elements
Join(a, b) ==
    IF a = "" THEN (IF b = "" THEN "" ELSE Clean(b))
    ELSE IF b = "" THEN Clean(a)
    ELSE Clean(a \o Sep \o b)

RECURSIVE CommonLen(_, _)
CommonLen(a, b) ==
    IF Len(a) = 0 \/ Len(b) = 0 \/ Head(a) # Head(b) THEN 0
    ELSE 1 + CommonLen(Tail(a), Tail(b))

\* The elements of a cleaned path ("." and "/" have none).
Elements(p) == CleanComps(Split(p, Sep), TRUE, <<>>)

\* filepath.Rel; "" stands for the error result, which the caller discards.
Rel(basepath, targpath) ==
    LET base == Clean(basepath)
        targ == Clean(targpath)
        bc == IF base = "." THEN <<>> ELSE SelectSeq(Split(base, Sep), LAMBDA c : c # "")
        tc == IF targ = "." THEN <<>> ELSE SelectSeq(Split(targ, Sep), LAMBDA c : c # "")
        k == CommonLen(bc, tc)
        brest == SubSeq(bc, k + 1, Len(bc))
        trest == SubSeq(tc, k + 1, Len(tc))
    IN  IF targ = base THEN "."
        ELSE IF IsAbs(base) # IsAbs(targ) THEN ""
        ELSE IF Len(brest) > 0 /\ brest[1] = ".." THEN ""
        ELSE JoinStrings([j \in 1..Len(brest) |-> ".."] \o trest, Sep)

-----------------------------------------------------------------------------
(* The file tree.  A node is [path, mode, content, err]: content is a      *)
(* regular file's payload or a symbolic link's target; err is the error    *)
(* the node answers with ("" for none).                                    *)

Reg(p, c)     == [path |-> p, mode |-> "reg",     content |-> c,  err |-> ""]
DirNode(p)    == [path |-> p, mode |-> "dir",     content |-> "", err |-> ""]
Symlink(p, t) == [path |-> p, mode |-> "symlink", content |-> t,  err |-> ""]
Special(p, m) == [path |-> p, mode |-> m,         content |-> "", err |-> ""]
WithErr(n, e) == [n EXCEPT !.err = e]

Exists(tree, p) == \E i \in 1..Len(tree) : tree[i].path = p

NodeAt(tree, p) == tree[CHOOSE i \in 1..Len(tree) : tree[i].path = p]

\* The names a directory enumeration (Readdir) returns, in the tree's order.
ChildNames(tree, p) ==
    LET kids == SelectSeq(tree, LAMBDA n : n.path # p /\ Dir(n.path) = p)
    IN  [i \in 1..Len(kids) |-> Base(kids[i].path)]

\* The host file tree the materializer walks.
HostTree ==
    << DirNode("/dir"), Reg("/dir/file1", "c1"), Reg("/dir/file2", "c2"),
       DirNode("/dir2"), Reg("/dir2/file", "c3"), Symlink("/dir2/symlink", "file"),
       DirNode("/dir3"), Symlink("/dir3/symlink", "/dir2"),
       Reg("/orig", "content"),
       WithErr(Reg("/origerr", "x"), "EACCES"),
       DirNode("/dir4"), Symlink("/dir4/abs", "/dir4/sub/inner"),
       DirNode("/dir4/sub"), Reg("/dir4/sub/inner", "c4"), Symlink("/dir4/sub/up", ".."),
       Symlink("/dir4/self", "."),
       DirNode("/dir5"), Symlink("/dir5/dangling", "missing"),
       DirNode("/dir6"), Symlink("/dir6/ln", "sub"), DirNode("/dir6/sub"),
       Reg("/dir6/sub/inner", "c6"), Symlink("/dir6/via", "ln/inner"),
       DirNode("/dir7"), Reg("/dir7/a", "c7"), Special("/dir7/pipe", "fifo"),
       DirNode("/dir8"), WithErr(DirNode("/dir8/sub"), "EIO"), Reg("/dir8/sub/x", "c8"),
       DirNode("/dir9"), WithErr(Symlink("/dir9/ln", "x"), "EACCES"),
       Special("/sock", "socket"),
       Special("/pipe", "fifo"),
       DirNode("/d"), Symlink("/d/sib", "/dd"), DirNode("/dd"),
       Reg("/data1", "c0") >>

\* The hostFile arguments tried: every top-level node and a path that does not exist.
HostRoots ==
    { HostTree[i].path : i \in { j \in 1..Len(HostTree) : Dir(HostTree[j].path) = "/" } }
        \cup {"/missing"}

RenameTos == {"renamed", "data1"}

-----------------------------------------------------------------------------
(* archive/tar as the materializer uses it.                                *)

TypeReg == "0"
TypeSymlink == "2"
TypeDir == "5"
TypeFifo == "6"

\* tar.FileInfoHeader: ok is FALSE for a socket, which the package refuses.
FileInfoHeader(fi, link) ==
    [ ok |-> fi.mode # "socket",
      Name |-> IF fi.mode = "dir" THEN Base(fi.path) \o "/" ELSE Base(fi.path),
      Typeflag |-> CASE fi.mode = "dir" -> TypeDir
                     [] fi.mode = "reg" -> TypeReg
                     [] fi.mode = "symlink" -> TypeSymlink
                     [] OTHER -> TypeFifo,
      Linkname |-> IF fi.mode = "symlink" THEN link ELSE "",
      Size |-> IF fi.mode = "reg" THEN Len(fi.content) ELSE 0,
      data |-> "" ]

ErrTarWrite == "archive/tar: write error"

\* tar.Writer.WriteHeader: a writer that failed once keeps failing.
WriteHeader(w, header, ok) ==
    IF ok /\ w.err = ""
    THEN [w EXCEPT !.entries = Append(@, [k \in DOMAIN header \ {"ok"} |-> header[k]])]
    ELSE [w EXCEPT !.err = ErrTarWrite]

\* Mutant of CopyInto: the last byte of the content is not written.
CopyIntoShort(w, content, n, ok) ==
    LET last == Len(w.entries)
        w2 == [w EXCEPT !.entries[last].data = SubSeq(content, 1, n - 1)]
    IN  IF ok THEN w2 ELSE [w2 EXCEPT !.err = ErrTarWrite]

\* io.Copy(h.tw, fd): n bytes of the content reach the current entry.
CopyInto(w, content, n, ok) ==
    LET last == Len(w.entries)
        w2 == [w EXCEPT !.entries[last].data = SubSeq(content, 1, n)]
    IN  IF ok THEN w2 ELSE [w2 EXCEPT !.err = ErrTarWrite]

-----------------------------------------------------------------------------
(* The tar materializer: bindMouseHostFileToTar and its helper.            *)

NoErr == ""

ErrNotExist(p) == "lstat " \o p \o ": no such file or directory"
ErrOpen(p) == "open " \o p \o ": permission denied"
ErrReaddir(p) == "readdirent " \o p \o ": input/output error"
ErrReadlink(p) == "error while reading link " \o p
ErrSymlinkOutside(p, root) ==
    "target of symlink " \o p \o " it outside the bind volume with host " \o root
ErrFileType(p) == "file " \o p \o " is neither a symlink, a directory nor a regular file"
ErrSocket == "archive/tar: sockets not supported"

\* h.endHeaderCommon: the writer after the header write, and the corrupt flag.
EndHeaderCommon(w, corrupt, header, ok) ==
    LET w2 == WriteHeader(w, header, ok)
    IN  [tw |-> w2, twMayBeCorrupt |-> corrupt \/ w2.err # NoErr, err |-> w2.err]

\* h.isFileWithinBindHostRoot, with h.rootHostFileVol and h.rootHostFileWithoutVol
\* as bindMouseHostFileToTar sets them from the root.
IsFileWithinBindHostRoot(target, root) ==
    LET vol == VolumeName(target)
        rootHostFileVol == VolumeName(root)
        rootHostFileWithoutVol == SubSeq(root, Len(rootHostFileVol) + 1, Len(root))
        targetWithoutVol == SubSeq(target, Len(vol) + 1, Len(target))
    IN  IF vol # rootHostFileVol THEN FALSE
        ELSE IF HasPrefix(targetWithoutVol, rootHostFileWithoutVol)
             THEN IF Len(targetWithoutVol) = Len(rootHostFileWithoutVol) THEN TRUE
                  ELSE CharAt(targetWithoutVol, Len(rootHostFileWithoutVol) + 1) = Sep
             ELSE FALSE

\* runSymlink: the absolute host path the link is taken to point at.
LinkResolved(file, link) ==
    LET linkIsAbsLike == link # "" /\ (CharAt(link, 1) = "\\" \/ CharAt(link, 1) = "/")
    IN  IF linkIsAbsLike \/ VolumeName(link) # ""
        THEN (IF IsAbs(link) THEN Clean(link) ELSE Join("/", link))
        ELSE Join(Dir(file), link)

\* Mutant of LinkNameInTar: the target's path from the top of the tar tree is
\* written, not its path relative to the entry's parent.
LinkNameInTarNotRelative(root, rename, fileNameInTar, linkResolved) ==
    rename \o SubSeq(linkResolved, Len(root) + 1, Len(linkResolved))

\* runSymlink: the link name written for a link whose target is within the root.
LinkNameInTar(root, rename, fileNameInTar, linkResolved) ==
    LET linkResolvedInTar == rename \o SubSeq(linkResolved, Len(root) + 1, Len(linkResolved))
    IN  Rel(Dir(fileNameInTar), linkResolvedInTar)

Idle == [pc |-> "idle"]

\* The operations modelled further down, not under way.
RestIdle ==
    /\ mk = Idle /\ img = Idle /\ cfg = Idle
    /\ wc = Idle /\ ctx = Idle /\ dk = Idle

Init ==
    /\ pc = "run"
    /\ fs = HostTree
    /\ hostFile \in HostRoots
    /\ renameTo \in RenameTos
    /\ tw = [entries |-> <<>>, err |-> NoErr]
    /\ twMayBeCorrupt = FALSE
    /\ call = <<>>
    /\ stack = <<>>
    /\ openFds = {}
    /\ err = NoErr
    /\ isDir = FALSE
    /\ hist = [walkErr |-> NoErr, recovery |-> "none", nWalk |-> 0]
    /\ df = Idle /\ rs = Idle /\ ev = Idle
    /\ RestIdle

\* An error return of runRecursive: every runDirectory frame returns it in turn,
\* its deferred close releasing the directory's handle.
WalkFails(e, w, corrupt) ==
    /\ err' = e
    /\ tw' = w
    /\ twMayBeCorrupt' = corrupt
    /\ call' = <<>>
    /\ stack' = <<>>
    /\ openFds' = {}
    /\ hist' = [hist EXCEPT !.walkErr = e, !.nWalk = Len(w.entries)]
    /\ pc' = "runErr"

\* A nil return of one runRecursive call: control is back in the caller's loop.
WalkContinues(w, corrupt) ==
    /\ tw' = w
    /\ twMayBeCorrupt' = corrupt
    /\ call' = <<>>
    /\ UNCHANGED <<err, hist, pc>>

\* run: os.Lstat of the root.
RunLstat ==
    /\ pc = "run"
    /\ IF Exists(fs, hostFile)
       THEN /\ call' = <<[hostFile |-> hostFile, fileNameInTar |-> renameTo]>>
            /\ pc' = "walk"
            /\ UNCHANGED <<err, hist>>
       ELSE /\ err' = ErrNotExist(hostFile)
            /\ hist' = [hist EXCEPT !.walkErr = ErrNotExist(hostFile)]
            /\ pc' = "outer"
            /\ UNCHANGED call
    /\ UNCHANGED <<fs, hostFile, renameTo, tw, twMayBeCorrupt, stack, openFds, isDir, df, rs, ev, restVars>>

\* runRecursive, case symlink: runSymlink.
RunSymlink ==
    /\ pc = "walk" /\ call # <<>>
    /\ LET c == call[1]
           fileInfo == NodeAt(fs, c.hostFile)
           link == fileInfo.content
           linkResolved == LinkResolved(c.hostFile, link)
       IN  /\ fileInfo.mode = "symlink"
           /\ IF fileInfo.err # NoErr
              THEN WalkFails(ErrReadlink(c.hostFile), tw, twMayBeCorrupt)
              ELSE IF ~IsFileWithinBindHostRoot(linkResolved, hostFile)
              THEN WalkFails(ErrSymlinkOutside(c.hostFile, hostFile), tw, twMayBeCorrupt)
              ELSE \E ok \in BOOLEAN :
                     LET header == [FileInfoHeader(fileInfo,
                                        LinkNameInTar(hostFile, renameTo, c.fileNameInTar,
                                                      linkResolved))
                                    EXCEPT !.Name = c.fileNameInTar]
                         r == EndHeaderCommon(tw, twMayBeCorrupt, header, ok)
                     IN  IF r.err # NoErr
                         THEN WalkFails(r.err, r.tw, r.twMayBeCorrupt)
                         ELSE /\ WalkContinues(r.tw, r.twMayBeCorrupt)
                              /\ UNCHANGED <<stack, openFds>>
    /\ UNCHANGED <<fs, hostFile, renameTo, isDir, df, rs, ev, restVars>>

\* runRecursive, case directory: runDirectory up to its loop over the entries.
RunDirectory ==
    /\ pc = "walk" /\ call # <<>>
    /\ LET c == call[1]
           fileInfo == NodeAt(fs, c.hostFile)
       IN  /\ fileInfo.mode = "dir"
           /\ IF fileInfo.err = "EACCES"
              THEN WalkFails(ErrOpen(c.hostFile), tw, twMayBeCorrupt)
              ELSE \E ok \in BOOLEAN :
                     LET header == [FileInfoHeader(fileInfo, "")
                                    EXCEPT !.Name = c.fileNameInTar \o "/"]
                         r == EndHeaderCommon(tw, twMayBeCorrupt, header, ok)
                     IN  IF r.err # NoErr
                         THEN WalkFails(r.err, r.tw, r.twMayBeCorrupt)
                         ELSE IF fileInfo.err # NoErr
                         THEN WalkFails(ErrReaddir(c.hostFile), r.tw, r.twMayBeCorrupt)
                         ELSE /\ stack' = Append(stack,
                                     [hostFile |-> c.hostFile, name |-> header.Name,
                                      entries |-> ChildNames(fs, c.hostFile)])
                              /\ openFds' = openFds \cup {c.hostFile}
                              /\ WalkContinues(r.tw, r.twMayBeCorrupt)
    /\ UNCHANGED <<fs, hostFile, renameTo, isDir, df, rs, ev, restVars>>

\* Mutant of DirectoryNext: the loop takes the entries from the last to the first.
DirectoryNextBackwards ==
    /\ pc = "walk" /\ call = <<>> /\ stack # <<>>
    /\ LET top == stack[Len(stack)]
           n == Len(top.entries)
       IN  /\ top.entries # <<>>
           /\ call' = <<[hostFile |-> top.hostFile \o Sep \o top.entries[n],
                         fileNameInTar |-> top.name \o top.entries[n]]>>
           /\ stack' = [stack EXCEPT ![Len(stack)].entries = SubSeq(@, 1, n - 1)]
    /\ UNCHANGED <<pc, fs, hostFile, renameTo, tw, twMayBeCorrupt, openFds, err, isDir,
                   hist, df, rs, ev, restVars>>

\* runDirectory: the next entry of the loop is handed to runRecursive.
DirectoryNext ==
    /\ pc = "walk" /\ call = <<>> /\ stack # <<>>
    /\ LET top == stack[Len(stack)]
       IN  /\ top.entries # <<>>
           /\ call' = <<[hostFile |-> top.hostFile \o Sep \o Head(top.entries),
                         fileNameInTar |-> top.name \o Head(top.entries)]>>
           /\ stack' = [stack EXCEPT ![Len(stack)].entries = Tail(@)]
    /\ UNCHANGED <<pc, fs, hostFile, renameTo, tw, twMayBeCorrupt, openFds, err, isDir,
                   hist, df, rs, ev, restVars>>

\* runDirectory: the loop is over, the deferred close runs, nil is returned.
DirectoryReturn ==
    /\ pc = "walk" /\ call = <<>> /\ stack # <<>>
    /\ LET top == stack[Len(stack)]
       IN  /\ top.entries = <<>>
           /\ stack' = SubSeq(stack, 1, Len(stack) - 1)
           /\ openFds' = openFds \ {top.hostFile}
    /\ UNCHANGED <<pc, fs, hostFile, renameTo, tw, twMayBeCorrupt, call, err, isDir,
                   hist, df, rs, ev, restVars>>

\* runRecursive, case regular file: runRegular.  The handle is opened and, by the
\* deferred close, released within the call.
RunRegular ==
    /\ pc = "walk" /\ call # <<>>
    /\ LET c == call[1]
           fileInfo == NodeAt(fs, c.hostFile)
       IN  /\ fileInfo.mode = "reg"
           /\ IF fileInfo.err # NoErr
              THEN WalkFails(ErrOpen(c.hostFile), tw, twMayBeCorrupt)
              ELSE \E ok \in BOOLEAN :
                     LET header == [FileInfoHeader(fileInfo, "") EXCEPT !.Name = c.fileNameInTar]
                         r == EndHeaderCommon(tw, twMayBeCorrupt, header, ok)
                     IN  IF r.err # NoErr
                         THEN WalkFails(r.err, r.tw, r.twMayBeCorrupt)
                         ELSE \/ /\ WalkContinues(
                                       CopyInto(r.tw, fileInfo.content,
                                                Len(fileInfo.content), TRUE),
                                       r.twMayBeCorrupt)
                                 /\ UNCHANGED <<stack, openFds>>
                              \/ \E n \in 0..(Len(fileInfo.content) - 1) :
                                    WalkFails(ErrTarWrite,
                                              CopyInto(r.tw, fileInfo.content, n, FALSE),
                                              TRUE)
    /\ UNCHANGED <<fs, hostFile, renameTo, isDir, df, rs, ev, restVars>>

\* runRecursive, default case: a socket, a named pipe, a device.
RunOther ==
    /\ pc = "walk" /\ call # <<>>
    /\ NodeAt(fs, call[1].hostFile).mode \notin {"symlink", "dir", "reg"}
    /\ WalkFails(ErrFileType(call[1].hostFile), tw, twMayBeCorrupt)
    /\ UNCHANGED <<fs, hostFile, renameTo, isDir, df, rs, ev, restVars>>

\* run: runRecursive returned nil.
RunReturn ==
    /\ pc = "walk" /\ call = <<>> /\ stack = <<>>
    /\ isDir' = (NodeAt(fs, hostFile).mode = "dir")
    /\ hist' = [hist EXCEPT !.nWalk = Len(tw.entries)]
    /\ pc' = "outer"
    /\ UNCHANGED <<fs, hostFile, renameTo, tw, twMayBeCorrupt, call, stack, openFds, err,
                   df, rs, ev, restVars>>

\* run: runRecursive returned an error.
RunRecover ==
    /\ pc = "runErr"
    /\ pc' = "outer"
    /\ IF twMayBeCorrupt
       THEN UNCHANGED <<tw, twMayBeCorrupt, err, isDir, hist>>
       ELSE LET fih == FileInfoHeader(NodeAt(fs, hostFile), "")
            IN  IF ~fih.ok
                THEN /\ err' = ErrSocket
                     /\ UNCHANGED <<tw, twMayBeCorrupt, isDir, hist>>
                ELSE \E ok \in BOOLEAN :
                       LET header == [fih EXCEPT !.Typeflag = TypeDir, !.Name = @ \o "/"]
                           r == EndHeaderCommon(tw, twMayBeCorrupt, header, ok)
                       IN  /\ tw' = r.tw
                           /\ twMayBeCorrupt' = r.twMayBeCorrupt
                           /\ err' = r.err
                           /\ isDir' = TRUE
                           /\ hist' = [hist EXCEPT !.recovery = "run"]
    /\ UNCHANGED <<fs, hostFile, renameTo, call, stack, openFds, df, rs, ev, restVars>>

\* bindMouseHostFileToTar after h.run returned.
Outer ==
    /\ pc = "outer"
    /\ pc' = "done"
    /\ IF err = NoErr
       THEN UNCHANGED <<tw, twMayBeCorrupt, err, isDir, hist>>
       ELSE IF twMayBeCorrupt
       THEN isDir' = FALSE /\ UNCHANGED <<tw, twMayBeCorrupt, err, hist>>
       ELSE \E ok \in BOOLEAN :
              LET header == [ok |-> TRUE, Name |-> renameTo \o "/", Typeflag |-> TypeDir,
                             Linkname |-> "", Size |-> 0, data |-> ""]
                  r == EndHeaderCommon(tw, twMayBeCorrupt, header, ok)
              IN  /\ tw' = r.tw
                  /\ twMayBeCorrupt' = r.twMayBeCorrupt
                  /\ err' = r.err
                  /\ isDir' = TRUE
                  /\ hist' = [hist EXCEPT !.recovery = "outer"]
    /\ UNCHANGED <<fs, hostFile, renameTo, call, stack, openFds, df, rs, ev, restVars>>

Next ==
    \/ RunLstat
    \/ RunSymlink
    \/ RunDirectory
    \/ DirectoryNext
    \/ DirectoryReturn
    \/ RunRegular
    \/ RunOther
    \/ RunReturn
    \/ RunRecover
    \/ Outer

Spec == Init /\ [][Next]_vars

-----------------------------------------------------------------------------
(* Properties of the tar materializer.                                     *)

Entries == tw.entries

\* The entries the walk wrote, without a placeholder the recovery appended.
WalkEntries ==
    IF pc \in {"run", "walk"} THEN Entries ELSE SubSeq(Entries, 1, hist.nWalk)

\* An entry's name without the trailing slash a directory entry carries.
EntryPath(e) ==
    IF Len(e.Name) > 0 /\ CharAt(e.Name, Len(e.Name)) = "/"
    THEN SubSeq(e.Name, 1, Len(e.Name) - 1)
    ELSE e.Name

\* q is p or lies under p, element by element.
NestedUnder(q, p) ==
    LET qe == Elements(q)
        pe == Elements(p)
    IN  Len(pe) <= Len(qe) /\ SubSeq(qe, 1, Len(pe)) = pe

\* The walk of the root failed and every tar write succeeded, so the writer was
\* never marked possibly-corrupt.
WalkFailedWriterSound ==
    pc = "done" /\ hist.walkErr # NoErr /\ tw.err = NoErr /\ ~twMayBeCorrupt

\* C1: whenever walking the root fails and the writer is not marked possibly-corrupt,
\* the call writes an empty-directory entry named exactly renameTo + "/" (type
\* directory, nothing under it) and returns isDir = true, err = nil.
C1_RecoveryWritesRenameTo ==
    WalkFailedWriterSound =>
        /\ \E i \in 1..Len(Entries) :
              /\ Entries[i].Name = renameTo \o "/"
              /\ Entries[i].Typeflag = TypeDir
              /\ \A j \in 1..Len(Entries) :
                    j # i => ~HasPrefix(Entries[j].Name, renameTo \o "/")
        /\ isDir = TRUE
        /\ err = NoErr

\* The tree under the root holds a symbolic link whose resolved target is neither
\* the root nor nested under it.
ContainsEscapingLink(tree, root) ==
    \E i \in 1..Len(tree) :
        /\ tree[i].mode = "symlink"
        /\ tree[i].path # root
        /\ NestedUnder(tree[i].path, root)
        /\ ~NestedUnder(LinkResolved(tree[i].path, tree[i].content), root)

\* C2: a call whose root holds a symbolic link that escapes the root returns a
\* non-nil error, also when every tar header write succeeds.
C2_SymlinkEscapeReturnsError ==
    (pc = "done" /\ ContainsEscapingLink(fs, hostFile) /\ tw.err = NoErr) => err # NoErr

RECURSIVE PreOrder(_, _, _)
\* The names a pre-order walk of the host node p gives when p is written as name:
\* a directory first, then each child's subtree in the enumeration's order.
PreOrder(tree, p, name) ==
    IF NodeAt(tree, p).mode # "dir" THEN <<name>>
    ELSE LET kids == SelectSeq(tree, LAMBDA n : n.path # p /\ Dir(n.path) = p)
             Sub[k \in 0..Len(kids)] ==
                 IF k = 0 THEN <<>>
                 ELSE Sub[k - 1] \o PreOrder(tree, kids[k].path,
                                             name \o "/" \o Base(kids[k].path))
         IN  <<name \o "/">> \o Sub[Len(kids)]

IsPrefixSeq(a, b) == Len(a) <= Len(b) /\ SubSeq(b, 1, Len(a)) = a

WalkNames == [i \in 1..Len(WalkEntries) |-> WalkEntries[i].Name]

\* C3: every directory's header (name ending in "/") is written before any entry
\* below it, the children's entries follow in the order the enumeration returned
\* them, and a call on a directory root that returns err = nil returns isDir = true.
C3_DirectoryWalkOrder ==
    /\ \A j \in 1..Len(WalkEntries) :
          LET parent == Dir(EntryPath(WalkEntries[j]))
          IN  parent # "." =>
                \E i \in 1..(j - 1) :
                    /\ WalkEntries[i].Name = parent \o "/"
                    /\ WalkEntries[i].Typeflag = TypeDir
    /\ Exists(fs, hostFile) =>
          /\ IsPrefixSeq(WalkNames, PreOrder(fs, hostFile, renameTo))
          /\ (pc = "done" /\ hist.walkErr = NoErr)
                => WalkNames = PreOrder(fs, hostFile, renameTo)
    /\ (pc = "done" /\ err = NoErr /\ Exists(fs, hostFile)
            /\ NodeAt(fs, hostFile).mode = "dir") => isDir = TRUE

\* The call of scenario 4 returned: /dir with file1 and file2, written as
\* renamed/, renamed/file1, renamed/file2.
C3_Witness ==
    /\ pc = "done" /\ hostFile = "/dir" /\ renameTo = "renamed"
    /\ err = NoErr /\ isDir = TRUE
    /\ WalkNames = <<"renamed/", "renamed/file1", "renamed/file2">>

\* The path inside the tar tree a symbolic-link entry points at.
LinkTargetInTar(e) == Join(Dir(e.Name), e.Linkname)

HasEntryAt(path) == \E i \in 1..Len(Entries) : EntryPath(Entries[i]) = path

\* The call returned err = nil, used no recovery and did not mark the writer corrupt.
SucceededPlain ==
    pc = "done" /\ err = NoErr /\ hist.recovery = "none" /\ ~twMayBeCorrupt

\* C4 as claimed: after such a call every symbolic-link entry's link name, resolved
\* against the entry's parent directory in the tar tree, names an entry of the output.
C4_LinkTargetsPresent ==
    SucceededPlain =>
        \A i \in 1..Len(Entries) :
            Entries[i].Typeflag = TypeSymlink => HasEntryAt(LinkTargetInTar(Entries[i]))

\* The host path that the path t of the tar tree stands for.
HostPathOf(t) == hostFile \o SubSeq(t, Len(renameTo) + 1, Len(t))

\* C4 as amended: every symbolic-link entry's link name, resolved against the entry's
\* parent directory in the tar tree, names renameTo or a path nested under it, namely
\* the counterpart of the host path the link resolves to, and that path is an entry
\* of the output exactly when that host path is a file of the walked tree.
C4_LinkTargetsWithinTree ==
    SucceededPlain =>
        \A i \in 1..Len(Entries) :
            Entries[i].Typeflag = TypeSymlink =>
                LET t == LinkTargetInTar(Entries[i])
                    linkHost == HostPathOf(Entries[i].Name)
                IN  /\ NestedUnder(t, renameTo)
                    /\ HostPathOf(t) = LinkResolved(linkHost, NodeAt(fs, linkHost).content)
                    /\ HasEntryAt(t) <=> Exists(fs, HostPathOf(t))

\* A successful call that emitted links to a file, to a parent and to the root.
C4_Witness ==
    /\ SucceededPlain /\ hostFile = "/dir4"
    /\ \E i \in 1..Len(Entries) :
          Entries[i].Typeflag = TypeSymlink /\ LinkTargetInTar(Entries[i]) = renameTo
    /\ \E i \in 1..Len(Entries) :
          Entries[i].Typeflag = TypeSymlink
              /\ LinkTargetInTar(Entries[i]) = renameTo \o "/sub/inner"

\* The root is a regular file that can be opened and read, and no tar write failed.
ReadableRegularRoot ==
    /\ pc = "done" /\ Exists(fs, hostFile)
    /\ NodeAt(fs, hostFile).mode = "reg" /\ NodeAt(fs, hostFile).err = NoErr
    /\ tw.err = NoErr

\* C5: for a readable regular file as root the call writes exactly one entry, a
\* regular-file entry named renameTo whose size and payload are the file's content,
\* and returns isDir = false, err = nil.
C5_RegularFileRoot ==
    ReadableRegularRoot =>
        /\ Entries = << [Name |-> renameTo, Typeflag |-> TypeReg, Linkname |-> "",
                         Size |-> Len(NodeAt(fs, hostFile).content),
                         data |-> NodeAt(fs, hostFile).content] >>
        /\ isDir = FALSE
        /\ err = NoErr

\* Scenario 2: /orig with payload "content" written as renamed.
C5_Witness ==
    /\ ReadableRegularRoot /\ hostFile = "/orig" /\ renameTo = "renamed"
    /\ Len(Entries) = 1 /\ Entries[1].data = "content"

-----------------------------------------------------------------------------
(* buildVolumeInitImageGetDockerfile.                                      *)

MaxVolumes == 4

\* fmt's %d
Itoa(i) == ToString(i)

BoolSeqs(n) == UNION { [1..k -> BOOLEAN] : k \in 0..n }

\* Everything the materializer holds, for the operations that do not use it.
TarIdle ==
    /\ hostFile = "" /\ renameTo = ""
    /\ tw = [entries |-> <<>>, err |-> NoErr]
    /\ twMayBeCorrupt = FALSE
    /\ call = <<>> /\ stack = <<>> /\ openFds = {}
    /\ err = NoErr /\ isDir = FALSE
    /\ hist = [walkErr |-> NoErr, recovery |-> "none", nWalk |-> 0]

InitDockerfile ==
    /\ pc = "dfCopy"
    /\ df \in { [isDirSlice |-> sl, b |-> "ARG BASE_IMAGE\nFROM ${BASE_IMAGE}\n", i |-> 1] :
                sl \in BoolSeqs(MaxVolumes) }
    /\ fs = <<>> /\ rs = Idle /\ ev = Idle
    /\ TarIdle
    /\ RestIdle

\* The first loop: one COPY line for volume i.
DfCopyLine ==
    /\ pc = "dfCopy"
    /\ df.i <= Len(df.isDirSlice)
    /\ df' = [df EXCEPT
                !.b = IF df.isDirSlice[df.i]
                      THEN @ \o "COPY data" \o Itoa(df.i) \o "/ /app/data/vol"
                             \o Itoa(df.i) \o "/\n"
                      ELSE @ \o "COPY data" \o Itoa(df.i) \o " /app/data/vol"
                             \o Itoa(df.i) \o "\n",
                !.i = @ + 1]
    /\ UNCHANGED <<pc, fs, rs, ev, tarVars, restVars>>

\* Between the loops: the ENTRYPOINT line is opened.
DfEntrypointOpen ==
    /\ pc = "dfCopy"
    /\ df.i > Len(df.isDirSlice)
    /\ df' = [df EXCEPT !.b = @ \o "ENTRYPOINT [\"bash\", \"-c\", \"", !.i = 1]
    /\ pc' = "dfEntry"
    /\ UNCHANGED <<fs, rs, ev, tarVars, restVars>>

\* The second loop: the cp fragment of volume i, after " && " from the second on.
DfEntrypointPart ==
    /\ pc = "dfEntry"
    /\ df.i <= Len(df.isDirSlice)
    /\ df' = [df EXCEPT
                !.b = @ \o (IF df.i > 1 THEN " && " ELSE "")
                        \o "cp -r /app/data/vol" \o Itoa(df.i)
                        \o " /mnt/vol" \o Itoa(df.i) \o "/root",
                !.i = @ + 1]
    /\ UNCHANGED <<pc, fs, rs, ev, tarVars, restVars>>

\* After the loops: the line is closed and the buffer returned.
DfReturn ==
    /\ pc = "dfEntry"
    /\ df.i > Len(df.isDirSlice)
    /\ df' = [df EXCEPT !.b = @ \o "\"]\n"]
    /\ pc' = "dfDone"
    /\ UNCHANGED <<fs, rs, ev, tarVars, restVars>>

NextDockerfile ==
    \/ DfCopyLine
    \/ DfEntrypointOpen
    \/ DfEntrypointPart
    \/ DfReturn

SpecDockerfile == InitDockerfile /\ [][NextDockerfile]_vars

\* The expected bytes of Test_BuildVolumeInitImageGetDockerfile_Success.
TestExpectedDockerfile ==
    "ARG BASE_IMAGE\nFROM ${BASE_IMAGE}\n"
    \o "COPY data1/ /app/data/vol1/\n"
    \o "COPY data2 /app/data/vol2\n"
    \o "ENTRYPOINT [\"bash\", \"-c\", \"cp -ar /app/data/vol1 /mnt/vol1/root && "
    \o "cp -ar /app/data/vol2 /mnt/vol2/root\"]\n"

\* The text of scenario 1 of the specification.
Scenario1Dockerfile ==
    "ARG BASE_IMAGE\nFROM ${BASE_IMAGE}\n"
    \o "COPY data1/ /app/data/vol1/\n"
    \o "COPY data2 /app/data/vol2\n"
    \o "ENTRYPOINT [\"bash\", \"-c\", \"cp -r /app/data/vol1 /mnt/vol1/root && "
    \o "cp -r /app/data/vol2 /mnt/vol2/root\"]\n"

\* The Dockerfile the claim describes for a list of isDir flags.
DockerfileOf(sl) ==
    LET copy(i) == IF sl[i]
                   THEN "COPY data" \o Itoa(i) \o "/ /app/data/vol" \o Itoa(i) \o "/"
                   ELSE "COPY data" \o Itoa(i) \o " /app/data/vol" \o Itoa(i)
        cp(i) == "cp -r /app/data/vol" \o Itoa(i) \o " /mnt/vol" \o Itoa(i) \o "/root"
    IN  JoinStrings(<<"ARG BASE_IMAGE", "FROM ${BASE_IMAGE}">>
                        \o [i \in 1..Len(sl) |-> copy(i)]
                        \o << "ENTRYPOINT [\"bash\", \"-c\", \""
                              \o JoinStrings([i \in 1..Len(sl) |-> cp(i)], " && ")
                              \o "\"]" >>,
                    "\n") \o "\n"

\* C6: the output is the two fixed lines, one COPY line per volume in index order
\* (slashes exactly for directories) and the ENTRYPOINT line of cp -r fragments joined
\* with " && "; for <<TRUE, FALSE>> it is the text of scenario 1, and that is the text
\* the test compares byte for byte with the function's output.
C6_DockerfileText ==
    pc = "dfDone" =>
        /\ df.b = DockerfileOf(df.isDirSlice)
        /\ df.isDirSlice = <<TRUE, FALSE>> =>
              /\ df.b = Scenario1Dockerfile
              /\ df.b = TestExpectedDockerfile

\* What holds of the code: the described format, and scenario 1 for <<TRUE, FALSE>>.
DockerfileAsDescribed ==
    pc = "dfDone" =>
        /\ df.b = DockerfileOf(df.isDirSlice)
        /\ df.isDirSlice = <<TRUE, FALSE>> => df.b = Scenario1Dockerfile

-----------------------------------------------------------------------------
(* The host file system as resolveBindVolumeHostPath uses it:              *)
(* filepath.Abs, filepath.EvalSymlinks and os.MkdirAll.                    *)

ENOENT == "no such file or directory"
ENOTDIR == "not a directory"
EEXIST == "file exists"
EACCES == "permission denied"
ELOOP == "EvalSymlinks: too many links"
ErrGetwd == "getwd: no such file or directory"

\* The number of links one evaluation follows before it gives up.
MaxLinks == 255

\* The working directory of the process.
HostCwd == "/a"

ModeAt(tree, p) == IF p = "/" THEN "dir" ELSE NodeAt(tree, p).mode

ChildPath(dir, name) == IF dir = "/" THEN "/" \o name ELSE dir \o "/" \o name

RECURSIVE WalkSymlinks(_, _, _, _, _)
\* filepath.EvalSymlinks from the directory dest over the elements rest: every
\* element is looked up without following it, a link's target is put in front of
\* what is left, an absolute target starts again at the root.  A walk that meets
\* a link again with the same elements left repeats itself until the budget of
\* MaxLinks links is spent, so it ends in ELOOP; seen holds the <<link, rest>> met.
WalkSymlinks(tree, dest, rest, links, seen) ==
    IF Len(rest) = 0 THEN [path |-> dest, err |-> NoErr]
    ELSE LET c == Head(rest)
             r == Tail(rest)
             p == ChildPath(dest, c)
         IN  IF c = "" \/ c = "." THEN WalkSymlinks(tree, dest, r, links, seen)
             ELSE IF c = ".." THEN WalkSymlinks(tree, Dir(dest), r, links, seen)
             ELSE IF ModeAt(tree, dest) # "dir" THEN [path |-> "", err |-> ENOTDIR]
             ELSE IF ~Exists(tree, p) THEN [path |-> "", err |-> ENOENT]
             ELSE IF NodeAt(tree, p).mode # "symlink"
                  THEN WalkSymlinks(tree, p, r, links, seen)
             ELSE IF links + 1 > MaxLinks \/ <<p, r>> \in seen
                  THEN [path |-> "", err |-> ELOOP]
             ELSE LET t == NodeAt(tree, p).content
                  IN  WalkSymlinks(tree, IF IsAbs(t) THEN "/" ELSE dest,
                                   Split(t, Sep) \o r, links + 1, seen \cup {<<p, r>>})

\* filepath.EvalSymlinks of an absolute path
EvalSymlinksHost(tree, path) == WalkSymlinks(tree, "/", Split(path, Sep), 0, {})

\* os.Stat: the mode of the file the path leads to, links followed.
Stat(tree, path) ==
    LET r == EvalSymlinksHost(tree, path)
    IN  IF r.err # NoErr THEN [mode |-> "", err |-> r.err]
        ELSE [mode |-> ModeAt(tree, r.path), err |-> NoErr]

\* os.Lstat: as Stat, the last element not followed.
Lstat(tree, path) ==
    LET d == EvalSymlinksHost(tree, Dir(Clean(path)))
        p == IF Clean(path) = "/" THEN "/" ELSE ChildPath(d.path, Base(path))
    IN  IF d.err # NoErr THEN [mode |-> "", err |-> d.err]
        ELSE IF ModeAt(tree, d.path) # "dir" THEN [mode |-> "", err |-> ENOTDIR]
        ELSE IF p # "/" /\ ~Exists(tree, p) THEN [mode |-> "", err |-> ENOENT]
        ELSE [mode |-> ModeAt(tree, p), err |-> NoErr]

\* os.Mkdir: the parent must be a directory that can be written, the name unused.
Mkdir(tree, path) ==
    LET d == EvalSymlinksHost(tree, Dir(Clean(path)))
        p == ChildPath(d.path, Base(path))
    IN  IF d.err # NoErr THEN [tree |-> tree, err |-> d.err]
        ELSE IF ModeAt(tree, d.path) # "dir" THEN [tree |-> tree, err |-> ENOTDIR]
        ELSE IF Clean(path) = "/" \/ Exists(tree, p) THEN [tree |-> tree, err |-> EEXIST]
        ELSE IF d.path # "/" /\ NodeAt(tree, d.path).err # NoErr
             THEN [tree |-> tree, err |-> EACCES]
        ELSE [tree |-> Append(tree, DirNode(p)), err |-> NoErr]

\* os.MkdirAll: the end of the parent's text within path (Go's j - 1), 0 for none.
ParentEnd(path) ==
    LET Trail[k \in 0..Len(path)] ==
            IF k > 0 /\ CharAt(path, k) = Sep THEN Trail[k - 1] ELSE k
        i == Trail[Len(path)]
        Elem[k \in 0..Len(path)] ==
            IF k > 0 /\ CharAt(path, k) # Sep THEN Elem[k - 1] ELSE k
        j == Elem[i]
    IN  IF j > 1 THEN j - 1 ELSE 0

\* Mutant of MkdirAll: only the last element is created (os.Mkdir).
MkdirOnly(tree, path) == Mkdir(tree, path)

RECURSIVE MkdirAll(_, _)
\* os.MkdirAll(path, 0777)
MkdirAll(tree, path) ==
    LET st == Stat(tree, path)
        k == ParentEnd(path)
        up == IF k > 0 THEN MkdirAll(tree, SubSeq(path, 1, k))
              ELSE [tree |-> tree, err |-> NoErr]
        made == Mkdir(up.tree, path)
        again == Lstat(made.tree, path)
    IN  IF st.err = NoErr
        THEN (IF st.mode = "dir" THEN [tree |-> tree, err |-> NoErr]
              ELSE [tree |-> tree, err |-> ENOTDIR])
        ELSE IF up.err # NoErr THEN up
        ELSE IF made.err # NoErr /\ again.err = NoErr /\ again.mode = "dir"
             THEN [tree |-> made.tree, err |-> NoErr]
        ELSE made

\* filepath.Abs; wdOk is whether os.Getwd succeeds.
Abs(path, wdOk) ==
    IF IsAbs(path) THEN [path |-> Clean(path), err |-> NoErr]
    ELSE IF ~wdOk THEN [path |-> "", err |-> ErrGetwd]
    ELSE [path |-> Join(HostCwd, path), err |-> NoErr]

-----------------------------------------------------------------------------
(* resolveBindVolumeHostPath.                                              *)

\* The host file tree the resolver runs on (the tests run it on an empty one).
ResolveTree ==
    << DirNode("/a"), DirNode("/a/b"), Reg("/a/f", "x"),
       Symlink("/l", "/a"), Symlink("/a/rel", "b"), Symlink("/a/b/up", "../f"),
       Symlink("/dang", "nowhere"), Symlink("/a/dang2", "/nowhere/else"),
       Symlink("/loop", "/loop"), Symlink("/top", "/"),
       WithErr(DirNode("/ro"), "EACCES") >>

ResolveTrees == { <<>>, ResolveTree }

ResolveNames ==
    { "/dir1/dir1_1", "/", "/a", "/a/b", "/a/b/new/leaf", "/a/new", "/l/b/x", "/l/rel",
      "/a/rel/y/z", "/a/b/up", "/a/f/x", "/a/b/up/x", "/dang", "/dang/x", "/a/dang2/y",
      "/loop", "/loop/x", "/top/n", "/ro/new", "/ro/new/x", "/a/../a/q", "//a//w/",
      "", "rel", "b/n" }

InitResolve ==
    /\ pc = "rsAbs"
    /\ fs \in ResolveTrees
    /\ rs \in { [name |-> n, tree0 |-> fs, parts |-> <<>>, i |-> 0, result |-> "",
                 ret |-> "", err |-> NoErr, prefix |-> "", missingAt |-> 0,
                 evalErr |-> NoErr, absErr |-> NoErr] : n \in ResolveNames }
    /\ df = Idle /\ ev = Idle
    /\ TarIdle
    /\ RestIdle

\* filepath.Abs, the volume and the split into parts.
RsAbs ==
    /\ pc = "rsAbs"
    /\ \E wdOk \in BOOLEAN :
          LET a == Abs(rs.name, wdOk)
              vol == VolumeName(a.path)
          IN  /\ (IsAbs(rs.name) => wdOk)
              /\ IF a.err # NoErr
                 THEN /\ rs' = [rs EXCEPT !.absErr = a.err, !.ret = "", !.err = a.err]
                      /\ pc' = "rsDone"
                 ELSE /\ rs' = [rs EXCEPT
                                  !.parts = Split(Clean(SubSeq(a.path, Len(vol) + 1,
                                                               Len(a.path))), Sep),
                                  !.result = vol,
                                  !.i = 1]
                      /\ pc' = "rsLoop"
    /\ UNCHANGED <<fs, df, ev, tarVars, restVars>>

\* A not-found error that takes every failure for one.
IsNotExistAnyError(e) == e # NoErr

\* os.IsNotExist
IsNotExist(e) == e = ENOENT

\* The path the loop evaluates for parts[i] (Go counts the parts from 0).
RsCandidate == rs.result \o Sep \o rs.parts[rs.i + 1]

\* One turn of the loop: the prefix ending at parts[i] exists and is evaluated.
RsSegmentResolved ==
    /\ pc = "rsLoop" /\ rs.i < Len(rs.parts)
    /\ LET r == EvalSymlinksHost(fs, RsCandidate)
       IN  /\ r.err = NoErr
           /\ rs' = [rs EXCEPT !.result = r.path, !.i = @ + 1]
    /\ UNCHANGED <<pc, fs, df, ev, tarVars, restVars>>

\* One turn of the loop: the evaluation reports not-found; the rest of the parts
\* is appended as it stands and the directories are made.
RsSegmentMissing ==
    /\ pc = "rsLoop" /\ rs.i < Len(rs.parts)
    /\ LET r == EvalSymlinksHost(fs, RsCandidate)
           tail == SubSeq(rs.parts, rs.i + 2, Len(rs.parts))
           result == IF rs.i + 1 < Len(rs.parts)
                     THEN RsCandidate \o Sep \o JoinStrings(tail, Sep)
                     ELSE RsCandidate
           m == MkdirAll(fs, result)
       IN  /\ IsNotExist(r.err)
           /\ fs' = m.tree
           /\ rs' = [rs EXCEPT !.prefix = rs.result, !.missingAt = rs.i,
                               !.evalErr = r.err, !.result = result,
                               !.ret = result, !.err = m.err]
           /\ pc' = "rsDone"
    /\ UNCHANGED <<df, ev, tarVars, restVars>>

\* One turn of the loop: the evaluation fails with another error.
RsSegmentError ==
    /\ pc = "rsLoop" /\ rs.i < Len(rs.parts)
    /\ LET r == EvalSymlinksHost(fs, RsCandidate)
       IN  /\ r.err # NoErr /\ ~IsNotExist(r.err)
           /\ rs' = [rs EXCEPT !.result = RsCandidate, !.evalErr = r.err,
                               !.ret = "", !.err = r.err]
           /\ pc' = "rsDone"
    /\ UNCHANGED <<fs, df, ev, tarVars, restVars>>

\* The loop is over: every part exists.
RsReturn ==
    /\ pc = "rsLoop" /\ rs.i >= Len(rs.parts)
    /\ rs' = [rs EXCEPT !.ret = rs.result, !.err = NoErr]
    /\ pc' = "rsDone"
    /\ UNCHANGED <<fs, df, ev, tarVars, restVars>>

NextResolve ==
    \/ RsAbs
    \/ RsSegmentResolved
    \/ RsSegmentMissing
    \/ RsSegmentError
    \/ RsReturn

SpecResolve == InitResolve /\ [][NextResolve]_vars

-----------------------------------------------------------------------------
(* Claims about resolveBindVolumeHostPath.                                 *)

\* A directory is at the path, links followed.
IsDirAt(tree, path) ==
    LET st == Stat(tree, path) IN st.err = NoErr /\ st.mode = "dir"

\* The resolved prefix, then the missing segment and the segments after it as written.
PrefixAndLiteralTail ==
    rs.prefix \o Sep \o JoinStrings(SubSeq(rs.parts, rs.missingAt + 1, Len(rs.parts)), Sep)

\* The call ended in the not-found branch of the loop.
EndedOnMissingSegment == pc = "rsDone" /\ rs.missingAt > 0

\* C7: when the evaluation of the prefix ending at segment i reports not-found, the
\* call returns without error the resolved prefix followed by segment i and the
\* remaining segments as written, and a directory is at the returned path afterwards;
\* on an empty file system "/dir1/dir1_1" returns "/dir1/dir1_1".
C7_MissingLeafReturnedWithoutError ==
    EndedOnMissingSegment =>
        /\ rs.err = NoErr
        /\ rs.ret = PrefixAndLiteralTail
        /\ IsDirAt(fs, rs.ret)
        /\ (rs.tree0 = <<>> /\ rs.name = "/dir1/dir1_1") => rs.ret = "/dir1/dir1_1"

\* C7 as it holds: the returned path is the resolved prefix followed by the literal
\* tail, it comes with the error of MkdirAll, and that error is nil exactly when a
\* directory is at the returned path afterwards; what was in the tree stays in it;
\* on an empty file system "/dir1/dir1_1" returns "/dir1/dir1_1" without error.
C7_MissingLeafReturnedWithMkdirAllError ==
    EndedOnMissingSegment =>
        /\ rs.ret = PrefixAndLiteralTail
        /\ rs.err = NoErr <=> IsDirAt(fs, rs.ret)
        /\ rs.err # NoErr => rs.err \in {EEXIST, EACCES, ENOTDIR}
        /\ \A k \in 1..Len(rs.tree0) : \E j \in 1..Len(fs) : fs[j] = rs.tree0[k]
        /\ (rs.tree0 = <<>> /\ rs.name = "/dir1/dir1_1") =>
              /\ rs.ret = "/dir1/dir1_1" /\ rs.err = NoErr
              /\ IsDirAt(fs, "/dir1") /\ IsDirAt(fs, "/dir1/dir1_1")

\* A call that resolved a prefix through a link, then made more than one directory.
C7_Witness ==
    /\ EndedOnMissingSegment
    /\ rs.err = NoErr
    /\ rs.missingAt > 1
    /\ rs.ret # Clean(rs.name)
    /\ Len(fs) > Len(rs.tree0) + 1
    /\ IsDirAt(fs, rs.ret)

\* The literal prefix of the cleaned absolute path ending at parts[k].
LiteralPrefix(k) == JoinStrings(SubSeq(rs.parts, 1, k + 1), Sep)

\* parts[k] is the first segment whose prefix does not evaluate, and it fails with e.
FirstFailureAt(k, e) ==
    /\ EvalSymlinksHost(rs.tree0, LiteralPrefix(k)).err = e
    /\ e # NoErr
    /\ \A j \in 1..(k - 1) : EvalSymlinksHost(rs.tree0, LiteralPrefix(j)).err = NoErr

\* C8: when making the input absolute fails, or the evaluation of a prefix fails with
\* an error other than not-found, the call returns that error with the empty path and
\* the file tree is what it was.
C8_ErrorsPropagate ==
    pc = "rsDone" =>
        /\ rs.absErr # NoErr => rs.ret = "" /\ rs.err = rs.absErr /\ fs = rs.tree0
        /\ rs.absErr = NoErr =>
              \A k \in 1..(Len(rs.parts) - 1) : \A e \in {ENOTDIR, EACCES, ELOOP, EEXIST} :
                  FirstFailureAt(k, e) => rs.ret = "" /\ rs.err = e /\ fs = rs.tree0

\* A call that resolved a prefix and then failed on a later one with another error.
C8_Witness ==
    /\ pc = "rsDone"
    /\ rs.i > 1
    /\ rs.evalErr \in {ENOTDIR, ELOOP}
    /\ \E k \in 2..(Len(rs.parts) - 1) : FirstFailureAt(k, rs.evalErr)
    /\ rs.ret = "" /\ rs.err = rs.evalErr /\ fs = rs.tree0

-----------------------------------------------------------------------------
(* EvalSymlinks of the in-memory file system (evalSymlinksHelper).         *)

OsErrNotExist == "file does not exist"
ErrTooManyLinks == "too many links"
ErrTest == "test error"

\* The in-memory file tree: links to directories, chains of links, links that
\* point at themselves, a cycle of two links, a link whose target grows the
\* remaining name, a link with an empty target, a node with an error.
VfsTree ==
    << DirNode("/a"), DirNode("/a/b"), Reg("/a/f", "x"), Reg("/a/b/deep", "y"),
       Symlink("/l", "/a"), Symlink("/a/rel", "b"), Symlink("/a/b/back", "/l/rel"),
       Symlink("/loop", "/loop"), Symlink("/a/self", "self"),
       Symlink("/c1", "/c2"), Symlink("/c2", "c1"),
       Symlink("/grow", "grow/x"), Symlink("/empty", ""),
       Symlink("/lf", "a/f"), Symlink("/a/b/ll", "back/deep"),
       WithErr(DirNode("/e"), ErrTest), Reg("/e/x", "z") >>

\* A tree whose root carries an error.
VfsTreeRootErr == << WithErr(DirNode("/"), ErrTest), DirNode("/a") >>

RootErr(tree) == IF Exists(tree, "/") THEN NodeAt(tree, "/").err ELSE NoErr

VfsAbsolutePaths ==
    { "/", "/a", "/a/b", "/a//b/", "//a/b/deep", "/l", "/l/rel/deep", "/a/b/back",
      "/a/b/back/deep", "/a/b/ll", "/lf", "/lf/x", "/loop", "/loop/x", "/a/self",
      "/c1/x", "/c2", "/grow", "/empty", "/empty/a", "/a/f/x", "/a/f/", "/a/missing/x",
      "/missing", "/e", "/e/x", "/l/b/back/ll" }

VfsRelativePaths == { "", "a", "a/rel", "a/rel/deep/", "c2", "l/f", "nothing/x" }

EvalStart(tree, path) ==
    [path |-> path, n |-> "", links |-> 0, resolved |-> "", nameRem |-> "",
     err |-> NoErr, ret |-> "", subst |-> 0, tree |-> tree]

InitEval ==
    /\ pc = "evStart"
    /\ fs \in { VfsTree, VfsTreeRootErr }
    /\ ev \in { EvalStart(fs, p) :
                  p \in IF fs = VfsTree THEN VfsAbsolutePaths \cup VfsRelativePaths
                        ELSE VfsAbsolutePaths }
    /\ df = Idle /\ rs = Idle
    /\ TarIdle
    /\ RestIdle

\* The working directory of the in-memory file system.
VfsCwd == "/"

\* EvalSymlinks up to the call of run.
EvStart ==
    /\ pc = "evStart"
    /\ IF ev.path # "" /\ CharAt(ev.path, 1) = "/"
       THEN IF RootErr(fs) # NoErr
            THEN /\ ev' = [ev EXCEPT !.resolved = "/", !.n = "/",
                                     !.nameRem = SubSeq(ev.path, 2, Len(ev.path)),
                                     !.err = RootErr(fs), !.ret = ""]
                 /\ pc' = "evDone"
            ELSE /\ ev' = [ev EXCEPT !.resolved = "/", !.n = "/",
                                     !.nameRem = SubSeq(ev.path, 2, Len(ev.path))]
                 /\ pc' = "evLoop"
       ELSE /\ ev' = [ev EXCEPT !.n = VfsCwd, !.nameRem = ev.path]
            /\ pc' = "evLoop"
    /\ UNCHANGED <<fs, df, rs, tarVars, restVars>>

\* strings.IndexByte(h.nameRem, '/'), 0 when there is none.
SlashPos == IndexByte(ev.nameRem, "/")

GetNameComp(nameRem, slashPos) ==
    IF slashPos = 0 THEN nameRem ELSE SubSeq(nameRem, 1, slashPos - 1)

UpdateNameRemFromSlashPos(nameRem, slashPos) ==
    IF slashPos = 0 THEN "" ELSE SubSeq(nameRem, slashPos + 1, Len(nameRem))

NameComp == GetNameComp(ev.nameRem, SlashPos)

\* h.n.dirLookup(nameComp): the path of the child, "" when there is none.
DirLookup(tree, n, nameComp) ==
    IF Exists(tree, ChildPath(n, nameComp)) THEN ChildPath(n, nameComp) ELSE ""

ChildN == DirLookup(fs, ev.n, NameComp)

\* The budget test that runs an evaluation out of links, one link late.
LinkBudgetSpentLate(links) == links > MaxLinks + 1

\* h.links > 255
LinkBudgetSpent(links) == links > MaxLinks

\* A resolved path that loses the component.
AppendCompDropped(resolved, nameComp) == resolved

\* h.resolved += "/" + nameComp
AppendComp(resolved, nameComp) == resolved \o "/" \o nameComp

\* The error the lookup of nameComp in h.n ends with, NoErr when there is none.
LookupErr ==
    IF ModeAt(fs, ev.n) # "dir" THEN ENOTDIR
    ELSE IF ChildN = "" THEN OsErrNotExist
    ELSE NodeAt(fs, ChildN).err

\* run returns; EvalSymlinks returns h.resolved with the error.
EvRunReturns(h, e) ==
    /\ ev' = [h EXCEPT !.err = e, !.ret = h.resolved]
    /\ pc' = "evDone"

\* A turn of the loop on an empty component.
EvSkipEmpty ==
    /\ pc = "evLoop" /\ ev.nameRem # "" /\ NameComp = ""
    /\ ev' = [ev EXCEPT !.nameRem = UpdateNameRemFromSlashPos(ev.nameRem, SlashPos)]
    /\ UNCHANGED <<pc, fs, df, rs, tarVars, restVars>>

\* A turn of the loop that ends in the lookup: not a directory, no such child, or
\* the child's error.
EvLookupFails ==
    /\ pc = "evLoop" /\ ev.nameRem # "" /\ NameComp # ""
    /\ LookupErr # NoErr
    /\ EvRunReturns(ev, LookupErr)
    /\ UNCHANGED <<fs, df, rs, tarVars, restVars>>

\* A turn of the loop on a child that is not a link.
EvDescend ==
    /\ pc = "evLoop" /\ ev.nameRem # "" /\ NameComp # ""
    /\ LookupErr = NoErr
    /\ NodeAt(fs, ChildN).mode # "symlink"
    /\ ev' = [ev EXCEPT !.nameRem = UpdateNameRemFromSlashPos(ev.nameRem, SlashPos),
                        !.resolved = AppendComp(ev.resolved, NameComp),
                        !.n = ChildN]
    /\ UNCHANGED <<pc, fs, df, rs, tarVars, restVars>>

\* A turn of the loop on a link within the budget: the target goes in front of
\* what is left of the name.
EvFollowLink ==
    /\ pc = "evLoop" /\ ev.nameRem # "" /\ NameComp # ""
    /\ LookupErr = NoErr
    /\ NodeAt(fs, ChildN).mode = "symlink"
    /\ ~LinkBudgetSpent(ev.links + 1)
    /\ LET target == NodeAt(fs, ChildN).content
           toRoot == Len(target) > 0 /\ CharAt(target, 1) = "/"
           j == IF toRoot THEN 1 ELSE 0
           rem == UpdateNameRemFromSlashPos(ev.nameRem, SlashPos)
           rest == SubSeq(target, j + 1, Len(target))
       IN  ev' = [ev EXCEPT !.links = @ + 1,
                            !.subst = @ + 1,
                            !.resolved = IF toRoot THEN "/" ELSE @,
                            !.n = IF toRoot THEN "/" ELSE @,
                            !.nameRem = IF rem # "" THEN rest \o "/" \o rem ELSE rest]
    /\ UNCHANGED <<pc, fs, df, rs, tarVars, restVars>>

\* A turn of the loop on a link with the budget spent.
EvTooManyLinks ==
    /\ pc = "evLoop" /\ ev.nameRem # "" /\ NameComp # ""
    /\ LookupErr = NoErr
    /\ NodeAt(fs, ChildN).mode = "symlink"
    /\ LinkBudgetSpent(ev.links + 1)
    /\ EvRunReturns([ev EXCEPT !.links = @ + 1,
                               !.nameRem = UpdateNameRemFromSlashPos(ev.nameRem, SlashPos)],
                    ErrTooManyLinks)
    /\ UNCHANGED <<fs, df, rs, tarVars, restVars>>

\* The name is used up: run returns nil.
EvReturn ==
    /\ pc = "evLoop" /\ ev.nameRem = ""
    /\ EvRunReturns(ev, NoErr)
    /\ UNCHANGED <<fs, df, rs, tarVars, restVars>>

NextEval ==
    \/ EvStart
    \/ EvSkipEmpty
    \/ EvLookupFails
    \/ EvDescend
    \/ EvFollowLink
    \/ EvTooManyLinks
    \/ EvReturn

\* The evaluation is one sequential loop: a turn that can be taken is taken.
SpecEvalSymlinks == InitEval /\ [][NextEval]_vars /\ WF_vars(NextEval)

-----------------------------------------------------------------------------
(* Claims about EvalSymlinks of the in-memory file system.                 *)

\* C9: every evaluation ends, with a result or with an error, also on links that
\* form a cycle or point at themselves; it never makes more than 255 substitutions,
\* and it fails with too-many-links on the link met after 255 substitutions.
C9_TerminatesWithinLinkBudget ==
    /\ <>(pc = "evDone")
    /\ [](ev.subst <= 255)
    /\ [](pc = "evDone" /\ ev.err = ErrTooManyLinks => ev.subst = 255 /\ ev.links = 256)
    /\ [](pc = "evDone" /\ ev.err # ErrTooManyLinks => ev.links = ev.subst)

\* An evaluation of a cycle of links that ended in too-many-links.
C9_Witness ==
    /\ pc = "evDone"
    /\ ev.path = "/c1/x"
    /\ ev.err = ErrTooManyLinks
    /\ ev.subst = 255

RECURSIVE WalkPlain(_, _, _)
\* The walk from node over the components comps, empty ones skipped, no link
\* followed: where it ends, whether every component was there, whether a node on
\* the way was a link.
WalkPlain(tree, node, comps) ==
    IF Len(comps) = 0 THEN [node |-> node, ok |-> TRUE, sawLink |-> FALSE]
    ELSE IF Head(comps) = "" THEN WalkPlain(tree, node, Tail(comps))
    ELSE LET p == ChildPath(node, Head(comps))
         IN  IF ~Exists(tree, p) THEN [node |-> "", ok |-> FALSE, sawLink |-> FALSE]
             ELSE LET w == WalkPlain(tree, p, Tail(comps))
                  IN  [w EXCEPT !.sawLink = @ \/ NodeAt(tree, p).mode = "symlink"]

\* C10: a result returned without error has no link among its components: the walk
\* of the result from the root, component by component, meets no link and ends on
\* the node the evaluation ended on.
C10_ResultHasNoSymlinkComponents ==
    (pc = "evDone" /\ ev.err = NoErr) =>
        LET w == WalkPlain(fs, "/", Split(ev.ret, Sep))
        IN  /\ w.ok
            /\ ~w.sawLink
            /\ w.node = ev.n
            /\ ev.n # "/" => NodeAt(fs, ev.n).mode # "symlink"

\* An evaluation through a chain of links that returned a path below the root.
C10_Witness ==
    /\ pc = "evDone" /\ ev.err = NoErr
    /\ ev.subst >= 3
    /\ ev.n = "/a/b/deep"
    /\ WalkPlain(fs, "/", Split(ev.ret, Sep)).node = "/a/b/deep"

-----------------------------------------------------------------------------
(* Mkdir and MkdirAll of the in-memory file system (mkdirCommon).          *)

\* A file mode is the set of the positions of its bits (os.FileMode).
ModePerm == 0..8
ModeDir == {31}
ModeSymlink == {27}
ModeSetuid == {23}
ModeSticky == {20}
ModeType == {31, 27, 26, 25, 24, 21, 19}

\* perm & mask
BitAnd(perm, mask) == perm \cap mask

Perm0777 == 0..8
Perm0755 == {0, 2, 3, 5, 6, 7, 8}

ErrBadMode == "bad mode"
ErrExist == "file already exists"

\* The number of Mkdir and MkdirAll calls in one run.
MaxMkdirCalls == 2

\* The file tree the calls start on, besides the empty one.
MkdirTree == << DirNode("/a"), DirNode("/a/b"), Reg("/a/f", "x") >>

MkdirNames == { "/", "/a", "/a/b/c", "/a/b/c/d", "/a/f", "/a/f/x", "/n", "/n/m", "/a//n/", "/n/" }

MkdirPerms == { Perm0777, Perm0755, Perm0755 \cup ModeDir, Perm0755 \cup ModeSymlink,
                Perm0755 \cup ModeSetuid, Perm0777 \cup ModeSticky }

RECURSIVE FindFrom(_, _, _)
\* fs.find from the node n over nameRem: the deepest node the name reaches, what is
\* left of the name from the first component that is not there, and the error.
FindFrom(tree, n, nameRem) ==
    IF nameRem = "" THEN [n |-> n, nameRem |-> "", err |-> NoErr]
    ELSE LET slashPos == IndexByte(nameRem, "/")
             nameComp == IF slashPos = 0 THEN nameRem ELSE SubSeq(nameRem, 1, slashPos - 1)
             rest == IF slashPos = 0 THEN "" ELSE SubSeq(nameRem, slashPos + 1, Len(nameRem))
         IN  IF nameComp = "" THEN FindFrom(tree, n, rest)
             ELSE IF ModeAt(tree, n) # "dir" THEN [n |-> n, nameRem |-> nameRem, err |-> ENOTDIR]
             ELSE IF ~Exists(tree, ChildPath(n, nameComp))
                  THEN [n |-> n, nameRem |-> nameRem, err |-> OsErrNotExist]
             ELSE FindFrom(tree, ChildPath(n, nameComp), rest)

\* fs.find(name, false, true) of an absolute name
Find(tree, name) == FindFrom(tree, "/", SubSeq(name, 2, Len(name)))

\* n.dirAppend(newDirNode(perm, nameComp)): the new directory is the last child of n.
DirAppend(tree, n, nameComp) == Append(tree, DirNode(ChildPath(n, nameComp)))

RECURSIVE MkdirCommonAllFlat(_, _, _)
\* The loop with every new directory appended to the first node.
MkdirCommonAllFlat(tree, n, nameRem) ==
    IF nameRem = "" THEN tree
    ELSE LET slashPos == IndexByte(nameRem, "/")
             nameComp == IF slashPos = 0 THEN nameRem ELSE SubSeq(nameRem, 1, slashPos - 1)
             rest == IF slashPos = 0 THEN "" ELSE SubSeq(nameRem, slashPos + 1, Len(nameRem))
         IN  IF nameComp # ""
             THEN MkdirCommonAllFlat(DirAppend(tree, n, nameComp), n, rest)
             ELSE MkdirCommonAllFlat(tree, n, rest)

RECURSIVE MkdirCommonAll(_, _, _)
\* mkdirCommonAll: a directory for every component of nameRem, each in the one before.
MkdirCommonAll(tree, n, nameRem) ==
    IF nameRem = "" THEN tree
    ELSE LET slashPos == IndexByte(nameRem, "/")
             nameComp == IF slashPos = 0 THEN nameRem ELSE SubSeq(nameRem, 1, slashPos - 1)
             rest == IF slashPos = 0 THEN "" ELSE SubSeq(nameRem, slashPos + 1, Len(nameRem))
         IN  IF nameComp # ""
             THEN MkdirCommonAll(DirAppend(tree, n, nameComp), ChildPath(n, nameComp), rest)
             ELSE MkdirCommonAll(tree, n, rest)

\* Where the loop would start if it took the whole name from the root.
AllStartFromRoot(found, name) == [n |-> "/", nameRem |-> name]

\* The node and the rest of the name mkdirCommon hands to mkdirCommonAll.
AllStart(found, name) == [n |-> found.n, nameRem |-> found.nameRem]

InitMkdir ==
    /\ pc = "mkCall"
    /\ fs \in { <<>>, MkdirTree }
    /\ mk = [calls |-> 0, name |-> "", perm |-> {}, all |-> FALSE, err |-> NoErr,
             tree0 |-> fs]
    /\ df = Idle /\ rs = Idle /\ ev = Idle
    /\ img = Idle /\ cfg = Idle /\ wc = Idle /\ ctx = Idle /\ dk = Idle
    /\ TarIdle

notMkdirVars == <<pc, df, rs, ev, img, cfg, wc, ctx, dk, tarVars>>

\* A call of mkdirCommon(name, perm, all) ends with error e and the tree t.
MkdirEnds(name, perm, all, e, t) ==
    /\ mk' = [calls |-> mk.calls + 1, name |-> name, perm |-> perm, all |-> all,
              err |-> e, tree0 |-> fs]
    /\ fs' = t
    /\ UNCHANGED notMkdirVars

MkdirCanCall == pc = "mkCall" /\ mk.calls < MaxMkdirCalls

\* The mode has a file-type bit.
MkBadMode ==
    /\ MkdirCanCall
    /\ \E name \in MkdirNames, perm \in MkdirPerms, all \in BOOLEAN :
          /\ BitAnd(perm, ModeType) # {}
          /\ MkdirEnds(name, perm, all, ErrBadMode, fs)

\* find fails with an error other than not-exist.
MkFindFails ==
    /\ MkdirCanCall
    /\ \E name \in MkdirNames, perm \in MkdirPerms, all \in BOOLEAN :
          LET found == Find(fs, name)
          IN  /\ BitAnd(perm, ModeType) = {}
              /\ found.err # NoErr /\ found.err # OsErrNotExist
              /\ MkdirEnds(name, perm, all, found.err, fs)

\* Mkdir: more than the last component is missing.
MkdirNotExist ==
    /\ MkdirCanCall
    /\ \E name \in MkdirNames, perm \in MkdirPerms :
          LET found == Find(fs, name)
          IN  /\ BitAnd(perm, ModeType) = {}
              /\ found.err \in {NoErr, OsErrNotExist}
              /\ IndexByte(found.nameRem, "/") # 0
              /\ MkdirEnds(name, perm, FALSE, OsErrNotExist, fs)

\* Mkdir: the name is there already.
MkdirExist ==
    /\ MkdirCanCall
    /\ \E name \in MkdirNames, perm \in MkdirPerms :
          LET found == Find(fs, name)
          IN  /\ BitAnd(perm, ModeType) = {}
              /\ found.err \in {NoErr, OsErrNotExist}
              /\ IndexByte(found.nameRem, "/") = 0
              /\ found.nameRem = ""
              /\ MkdirEnds(name, perm, FALSE, ErrExist, fs)

\* Mkdir: the last component is made.
MkdirAppend ==
    /\ MkdirCanCall
    /\ \E name \in MkdirNames, perm \in MkdirPerms :
          LET found == Find(fs, name)
          IN  /\ BitAnd(perm, ModeType) = {}
              /\ found.err \in {NoErr, OsErrNotExist}
              /\ IndexByte(found.nameRem, "/") = 0
              /\ found.nameRem # ""
              /\ MkdirEnds(name, perm, FALSE, NoErr, DirAppend(fs, found.n, found.nameRem))

\* MkdirAll: the node the name reaches is not a directory.
MkdirAllNotDir ==
    /\ MkdirCanCall
    /\ \E name \in MkdirNames, perm \in MkdirPerms :
          LET found == Find(fs, name)
          IN  /\ BitAnd(perm, ModeType) = {}
              /\ found.err \in {NoErr, OsErrNotExist}
              /\ ModeAt(fs, found.n) # "dir"
              /\ MkdirEnds(name, perm, TRUE, ENOTDIR, fs)

\* MkdirAll: the components that are left are made.
MkdirAllCreate ==
    /\ MkdirCanCall
    /\ \E name \in MkdirNames, perm \in MkdirPerms :
          LET found == Find(fs, name)
              start == AllStart(found, name)
          IN  /\ BitAnd(perm, ModeType) = {}
              /\ found.err \in {NoErr, OsErrNotExist}
              /\ ModeAt(fs, found.n) = "dir"
              /\ MkdirEnds(name, perm, TRUE, NoErr,
                           MkdirCommonAll(fs, start.n, start.nameRem))

NextMkdir ==
    \/ MkBadMode
    \/ MkFindFails
    \/ MkdirNotExist
    \/ MkdirExist
    \/ MkdirAppend
    \/ MkdirAllNotDir
    \/ MkdirAllCreate

SpecMkdir == InitMkdir /\ [][NextMkdir]_vars

-----------------------------------------------------------------------------
(* Claims about Mkdir and MkdirAll of the in-memory file system.           *)

\* The components of a name, empty ones left out.
NameComps(name) == SelectSeq(Split(name, Sep), LAMBDA c : c # "")

\* The path of the first k components of the called name.
NamePrefix(k) == "/" \o JoinStrings(SubSeq(NameComps(mk.name), 1, k), Sep)

NameLen == Len(NameComps(mk.name))

\* The prefixes of the called name that were not in the tree before the call.
MissingPrefixes == { k \in 1..NameLen : ~Exists(mk.tree0, NamePrefix(k)) }

\* The last call was MkdirAll with a mode of permission bits only.
MkdirAllPermissionOnly == mk.calls > 0 /\ mk.all /\ mk.perm \subseteq ModePerm

\* C11: MkdirAll with a permission-only mode succeeds and changes nothing when every
\* component is a directory already, fails with not-a-directory and changes nothing
\* when a component that is there is not a directory, and otherwise succeeds having
\* made exactly the missing components, as directories, one inside the other.
C11_MkdirAllCases ==
    MkdirAllPermissionOnly =>
        IF \E k \in 1..NameLen :
              Exists(mk.tree0, NamePrefix(k)) /\ NodeAt(mk.tree0, NamePrefix(k)).mode # "dir"
        THEN mk.err = ENOTDIR /\ fs = mk.tree0
        ELSE IF MissingPrefixes = {}
        THEN mk.err = NoErr /\ fs = mk.tree0
        ELSE LET first == NameLen - Cardinality(MissingPrefixes) + 1
             IN  /\ mk.err = NoErr
                 /\ MissingPrefixes = first..NameLen
                 /\ fs = mk.tree0 \o [i \in 1..Cardinality(MissingPrefixes) |->
                                         DirNode(NamePrefix(first + i - 1))]

\* A MkdirAll that made two directories below one that was there.
C11_Witness ==
    /\ MkdirAllPermissionOnly
    /\ mk.err = NoErr
    /\ NameLen > 2
    /\ Exists(mk.tree0, NamePrefix(1))
    /\ Len(fs) = Len(mk.tree0) + 2
    /\ Exists(fs, NamePrefix(NameLen)) /\ NodeAt(fs, NamePrefix(NameLen)).mode = "dir"

\* C12: a call of Mkdir or MkdirAll with a mode that has a bit outside the permission
\* bits fails with the bad-mode error and leaves the tree as it was.
C12_NonPermissionBitsRefused ==
    (mk.calls > 0 /\ ~(mk.perm \subseteq ModePerm)) =>
        mk.err = ErrBadMode /\ fs = mk.tree0

\* What holds of the code: a mode with a file-type bit is refused.
FileTypeBitsRefused ==
    (mk.calls > 0 /\ BitAnd(mk.perm, ModeType) # {}) =>
        mk.err = ErrBadMode /\ fs = mk.tree0

\* C17: after any sequence of Mkdir and MkdirAll calls no directory has two children
\* of one name: no two nodes of the tree have the same path.
C17_OneChildPerName ==
    \A i, j \in 1..Len(fs) : fs[i].path = fs[j].path => i = j

\* Two calls, the second a MkdirAll of a name with a repeated and a trailing slash
\* that made a directory in a directory that was there.
C17_Witness ==
    /\ mk.calls >= 2
    /\ mk.all /\ mk.err = NoErr
    /\ mk.name = "/a//n/"
    /\ Exists(mk.tree0, "/a") /\ ~Exists(mk.tree0, "/a/n") /\ Exists(fs, "/a/n")

-----------------------------------------------------------------------------
(* buildVolumeInitImage: the build and the scan of its response stream.    *)

Sha256Prefix == "sha256:"
Sha256BitLength == 256

HexChars == { "0", "1", "2", "3", "4", "5", "6", "7", "8", "9",
              "a", "b", "c", "d", "e", "f", "A", "B", "C", "D", "E", "F" }

\* The length of a digest: the prefix and one character for every four bits.
DigestLen == Sha256BitLength \div 4 + Len(Sha256Prefix)

\* digestRegexp matches at position i of s.
DigestAt(s, i) ==
    /\ i + DigestLen - 1 <= Len(s)
    /\ SubSeq(s, i, i + Len(Sha256Prefix) - 1) = Sha256Prefix
    /\ \A k \in (i + Len(Sha256Prefix))..(i + DigestLen - 1) : CharAt(s, k) \in HexChars

\* digestRegexp.FindStringIndex(s): the start of the leftmost match, 0 when none (Go: nil).
FindStringIndex(s) ==
    IF \E i \in 1..Len(s) : DigestAt(s, i)
    THEN CHOOSE i \in 1..Len(s) : DigestAt(s, i) /\ \A j \in 1..(i - 1) : ~DigestAt(s, j)
    ELSE 0

\* Sixty-four times the character c.
Hex64(c) ==
    LET c4 == c \o c \o c \o c
        c16 == c4 \o c4 \o c4 \o c4
    IN  c16 \o c16 \o c16 \o c16

DigestA == Sha256Prefix \o Hex64("a")
DigestB == Sha256Prefix \o Hex64("0")
DigestC == Sha256Prefix \o Hex64("F")

\* The msg.Stream values the build service sends.
StreamMessages ==
    { DigestA \o "\n",
      "Successfully built " \o DigestB \o "\n",
      "Step 1/3 : FROM ubuntu\n",
      "sha256:abc\n",
      Sha256Prefix \o SubSeq(Hex64("b"), 1, 63) \o "g " \o DigestC \o " " \o DigestA,
      "" }

\* The number of messages in one response stream.
MaxMessages == 2

\* The response streams: the messages and how the stream ends (io.EOF or another error).
Streams ==
    UNION { [1..n -> StreamMessages] : n \in 0..MaxMessages }

ErrBuildContext == "build context error"
ErrImageBuild == "image build error"
ErrDecode == "unexpected end of JSON input"
ErrNoImageID == "could not parse image ID from docker build output stream"

InitImage ==
    /\ pc = "imgContext"
    /\ img \in { [stream |-> st, end |-> e, pos |-> 0, imageID |-> "", returned |-> "",
                  err |-> NoErr, bodyOpen |-> FALSE, bodyOpened |-> FALSE] :
                  st \in Streams, e \in {"EOF", ErrDecode} }
    /\ fs = <<>>
    /\ df = Idle /\ rs = Idle /\ ev = Idle
    /\ mk = Idle /\ cfg = Idle /\ wc = Idle /\ ctx = Idle /\ dk = Idle
    /\ TarIdle

notImageVars == <<fs, df, rs, ev, mk, cfg, wc, ctx, dk, tarVars>>

\* buildVolumeInitImage returns (nil, e).
ImgFails(e) ==
    /\ img' = [img EXCEPT !.returned = "nil", !.err = e]
    /\ pc' = "imgDone"
    /\ UNCHANGED notImageVars

\* buildVolumeInitImageGetBuildContext fails.
ImgBuildContextFails ==
    /\ pc = "imgContext"
    /\ ImgFails(ErrBuildContext)

\* The build context is there.
ImgBuildContext ==
    /\ pc = "imgContext"
    /\ pc' = "imgBuild"
    /\ UNCHANGED <<img, notImageVars>>

\* dc.ImageBuild fails.
ImgImageBuildFails ==
    /\ pc = "imgBuild"
    /\ ImgFails(ErrImageBuild)

\* dc.ImageBuild returns the response, its body open.
ImgImageBuild ==
    /\ pc = "imgBuild"
    /\ img' = [img EXCEPT !.bodyOpen = TRUE, !.bodyOpened = TRUE]
    /\ pc' = "imgDecode"
    /\ UNCHANGED notImageVars

\* The image ID a message with a match at loc holds.
ImageIDAt(stream, loc) == SubSeq(stream, loc, loc + DigestLen - 1)

\* decoder.Decode gives the next message and it holds a digest.
ImgDecodeMatch ==
    /\ pc = "imgDecode" /\ img.pos < Len(img.stream)
    /\ LET msg == img.stream[img.pos + 1]
           loc == FindStringIndex(msg)
       IN  /\ loc # 0
           /\ img' = [img EXCEPT !.pos = @ + 1, !.imageID = ImageIDAt(msg, loc)]
    /\ UNCHANGED <<pc, notImageVars>>

\* decoder.Decode gives the next message and it holds no digest.
ImgDecodeNoMatch ==
    /\ pc = "imgDecode" /\ img.pos < Len(img.stream)
    /\ FindStringIndex(img.stream[img.pos + 1]) = 0
    /\ img' = [img EXCEPT !.pos = @ + 1]
    /\ UNCHANGED <<pc, notImageVars>>

\* decoder.Decode fails with an error that is not io.EOF.
ImgDecodeFails ==
    /\ pc = "imgDecode" /\ img.pos = Len(img.stream) /\ img.end # "EOF"
    /\ ImgFails(img.end)

\* io.EOF with an image ID recorded: the result is returned.
ImgReturn ==
    /\ pc = "imgDecode" /\ img.pos = Len(img.stream) /\ img.end = "EOF"
    /\ img.imageID # ""
    /\ img' = [img EXCEPT !.returned = "r", !.err = NoErr]
    /\ pc' = "imgDone"
    /\ UNCHANGED notImageVars

\* io.EOF with no image ID recorded.
ImgNoImageID ==
    /\ pc = "imgDecode" /\ img.pos = Len(img.stream) /\ img.end = "EOF"
    /\ img.imageID = ""
    /\ ImgFails(ErrNoImageID)

NextImage ==
    \/ ImgBuildContextFails
    \/ ImgBuildContext
    \/ ImgImageBuildFails
    \/ ImgImageBuild
    \/ ImgDecodeMatch
    \/ ImgDecodeNoMatch
    \/ ImgDecodeFails
    \/ ImgReturn
    \/ ImgNoImageID

SpecImage == InitImage /\ [][NextImage]_vars

\* The positions of the messages of the stream that hold a digest.
MatchingMessages == { k \in 1..Len(img.stream) : FindStringIndex(img.stream[k]) # 0 }

\* The digest the k-th message holds first.
DigestOf(k) ==
    LET msg == img.stream[k] IN ImageIDAt(msg, FindStringIndex(msg))

\* The stream was read to its end without a decoding error.
ScannedToEOF == pc = "imgDone" /\ img.bodyOpened /\ img.end = "EOF"

\* C13: the image ID of the result is the first digest of the stream, also when
\* later messages hold digests; with no digest before the end of the stream the call
\* fails with the could-not-parse error and returns no result.
C13_FirstMatchRecorded ==
    ScannedToEOF =>
        IF MatchingMessages # {}
        THEN /\ img.returned = "r" /\ img.err = NoErr
             /\ img.imageID = DigestOf(CHOOSE k \in MatchingMessages :
                                          \A j \in MatchingMessages : k <= j)
        ELSE img.returned = "nil" /\ img.err = ErrNoImageID

\* What holds of the code: the image ID is the first digest of the last message
\* that holds one.
LastMatchingMessageRecorded ==
    ScannedToEOF =>
        IF MatchingMessages # {}
        THEN /\ img.returned = "r" /\ img.err = NoErr
             /\ img.imageID = DigestOf(CHOOSE k \in MatchingMessages :
                                          \A j \in MatchingMessages : k >= j)
        ELSE img.returned = "nil" /\ img.err = ErrNoImageID

-----------------------------------------------------------------------------
(* Config: AddToFilter, MatchesFilter and ClearFilter.                     *)

Services == { "a", "b", "c", "d", "e" }

\* The depends_on edges of newTestConfig, and a service with none.
TestDependsOn ==
    [ s \in Services |-> CASE s = "a" -> { "b" }
                           [] s = "b" -> { "c", "d" }
                           [] OTHER   -> {} ]

\* A graph where two paths meet and one service depends on the top.
DiamondDependsOn ==
    [ s \in Services |-> CASE s = "a" -> { "b", "c" }
                           [] s = "b" -> { "d" }
                           [] s = "c" -> { "d" }
                           [] s = "e" -> { "a" }
                           [] OTHER   -> {} ]

\* A chain.
ChainDependsOn ==
    [ s \in Services |-> CASE s = "a" -> { "b" }
                           [] s = "b" -> { "c" }
                           [] s = "c" -> { "d" }
                           [] s = "d" -> { "e" }
                           [] OTHER   -> {} ]

\* The number of AddToFilter and ClearFilter calls in one run.
MaxFilterCalls == 3

\* A filter that marks the service and the services it names itself only.
AddToFilterDirect(dependsOn, todo, marked) == marked \cup todo \cup UNION { dependsOn[s] : s \in todo }

RECURSIVE AddToFilter(_, _, _)
\* AddToFilter: the services of todo are marked, and from every service that gets
\* its mark the services it depends on.
AddToFilter(dependsOn, todo, marked) ==
    IF todo = {} THEN marked
    ELSE LET s == CHOOSE x \in todo : TRUE
         IN  IF s \in marked
             THEN AddToFilter(dependsOn, todo \ {s}, marked)
             ELSE AddToFilter(dependsOn, (todo \ {s}) \cup dependsOn[s], marked \cup {s})

\* MatchesFilter
MatchesFilter(t) == t \in cfg.matchesFilter

InitConfig ==
    /\ pc = "cfgCall"
    /\ cfg \in { [dependsOn |-> g, matchesFilter |-> {}, added |-> {}, calls |-> 0] :
                  g \in { TestDependsOn, DiamondDependsOn, ChainDependsOn } }
    /\ fs = <<>>
    /\ df = Idle /\ rs = Idle /\ ev = Idle
    /\ mk = Idle /\ img = Idle /\ wc = Idle /\ ctx = Idle /\ dk = Idle
    /\ TarIdle

notConfigVars == <<pc, fs, df, rs, ev, mk, img, wc, ctx, dk, tarVars>>

\* cfg.AddToFilter(s)
CfgAddToFilter ==
    /\ pc = "cfgCall" /\ cfg.calls < MaxFilterCalls
    /\ \E s \in Services :
          cfg' = [cfg EXCEPT !.matchesFilter = AddToFilter(cfg.dependsOn, {s}, @),
                             !.added = @ \cup {s},
                             !.calls = @ + 1]
    /\ UNCHANGED notConfigVars

\* cfg.ClearFilter()
CfgClearFilter ==
    /\ pc = "cfgCall" /\ cfg.calls < MaxFilterCalls
    /\ cfg' = [cfg EXCEPT !.matchesFilter = {}, !.added = {}, !.calls = @ + 1]
    /\ UNCHANGED notConfigVars

NextConfig ==
    \/ CfgAddToFilter
    \/ CfgClearFilter

SpecConfig == InitConfig /\ [][NextConfig]_vars

\* t is s, or a path of depends_on edges of at most n steps leads from s to t.
RECURSIVE ReachableWithin(_, _, _)
ReachableWithin(s, t, n) ==
    \/ s = t
    \/ n > 0 /\ \E u \in cfg.dependsOn[s] : ReachableWithin(u, t, n - 1)

Reachable(s, t) == ReachableWithin(s, t, Cardinality(Services))

\* C14: a service matches the filter exactly when it is one of the services added
\* since the filter was last clear or is reachable from one through depends_on
\* edges; for a->b, b->{c,d} adding a marks exactly a, b, c, d; a clear filter
\* matches no service.
C14_FilterClosure ==
    /\ \A t \in Services : MatchesFilter(t) <=> \E s \in cfg.added : Reachable(s, t)
    /\ (cfg.dependsOn = TestDependsOn /\ cfg.added = { "a" }) =>
          cfg.matchesFilter = { "a", "b", "c", "d" }
    /\ cfg.added = {} => \A t \in Services : ~MatchesFilter(t)

\* Two additions on the graph where two paths meet, neither closure holding the other.
C14_Witness ==
    /\ cfg.dependsOn = DiamondDependsOn
    /\ cfg.added = { "b", "c" }
    /\ cfg.matchesFilter = { "b", "c", "d" }
    /\ cfg.calls >= 2

-----------------------------------------------------------------------------
(* The possibly-corrupt writer of the tar materializer.                    *)

\* A header write or a copy into the writer failed during the walk.
WriteFailedInWalk == hist.walkErr = ErrTarWrite

\* C15: once a header write or a copy into the writer has failed the writer is
\* marked possibly-corrupt and stays marked (the writer keeps its error); a call
\* that ends with the mark returns the error with isDir = false; after a failure
\* during the walk no placeholder follows and the entries stay as the walk left them.
C15_CorruptWriterPropagates ==
    /\ tw.err # NoErr => twMayBeCorrupt
    /\ (pc = "done" /\ twMayBeCorrupt) => isDir = FALSE /\ err = ErrTarWrite
    /\ (pc \in {"runErr", "outer", "done"} /\ WriteFailedInWalk) =>
          /\ twMayBeCorrupt
          /\ hist.recovery = "none"
          /\ Len(Entries) = hist.nWalk

\* What holds of the code: the same, but for the call whose placeholder
\* renameTo + "/" is the write that fails, which returns the error with isDir = true.
CorruptWriterPropagatesButOuterPlaceholder ==
    /\ tw.err # NoErr => twMayBeCorrupt
    /\ (pc = "done" /\ twMayBeCorrupt) =>
          /\ err = ErrTarWrite
          /\ isDir = (hist.recovery = "outer")
    /\ (pc \in {"runErr", "outer", "done"} /\ WriteFailedInWalk) =>
          /\ twMayBeCorrupt
          /\ hist.recovery = "none"
          /\ Len(Entries) = hist.nWalk

-----------------------------------------------------------------------------
(* isFileWithinBindHostRoot on cleaned paths.                              *)

\* Cleaned roots of bind volumes.
WithinRoots == { "/", "/dir2", "/dir", "/a/b", "/d", "/a", "/dir2/file", "/orig" }

\* Cleaned resolved targets of links.
WithinTargets ==
    { "/", "/dir2", "/dir22", "/dir2/file", "/dir2x/file", "/dir", "/dir/file1", "/a",
      "/a/b", "/a/b/c", "/a/bc", "/a/b/c/d", "/d", "/dd", "/d/sib", "/etc", "/orig",
      "/origerr" }

InitWithin ==
    /\ pc = "wcCall"
    /\ wc \in { [root |-> r, target |-> t, answer |-> FALSE] :
                 r \in WithinRoots, t \in WithinTargets }
    /\ fs = <<>>
    /\ df = Idle /\ rs = Idle /\ ev = Idle
    /\ mk = Idle /\ img = Idle /\ cfg = Idle /\ ctx = Idle /\ dk = Idle
    /\ TarIdle

\* h.isFileWithinBindHostRoot(target) on the helper of the root.
WcCheck ==
    /\ pc = "wcCall"
    /\ wc' = [wc EXCEPT !.answer = IsFileWithinBindHostRoot(wc.target, wc.root)]
    /\ pc' = "wcDone"
    /\ UNCHANGED <<fs, df, rs, ev, mk, img, cfg, ctx, dk, tarVars>>

NextWithin == WcCheck

SpecWithin == InitWithin /\ [][NextWithin]_vars

\* The target is the root or nested under it, component by component.
WithinComponentWise(target, root) ==
    /\ VolumeName(target) = VolumeName(root)
    /\ LET rc == NameComps(root)
           tc == NameComps(target)
       IN  Len(rc) <= Len(tc) /\ SubSeq(tc, 1, Len(rc)) = rc

\* C16: the check answers true exactly when the volumes are equal and the target is
\* the root or nested under it component-wise: /dir22 is outside /dir2, and a nested
\* target is inside for every root, the root "/" included.
C16_ContainmentComponentWise ==
    pc = "wcDone" => (wc.answer <=> WithinComponentWise(wc.target, wc.root))

\* What holds of the code: the same for every root but "/", under which only "/"
\* itself is found inside.
ContainmentButUnderSlash ==
    pc = "wcDone" =>
        IF wc.root = "/" THEN wc.answer <=> wc.target = "/"
        ELSE wc.answer <=> WithinComponentWise(wc.target, wc.root)

-----------------------------------------------------------------------------
(* buildVolumeInitImageGetBuildContext.                                    *)

\* The number of bind volume host paths of one build context.
MaxPaths == 3

ErrBindMount == "bind mount error"

\* The tar buffer: the entries written so far and whether the end-of-archive
\* trailer, which tw.Close writes, is in it.
EmptyBuffer == [entries |-> <<>>, trailer |-> FALSE]

InitContext ==
    /\ pc = "ctxLoop"
    /\ ctx \in { [n |-> n, i |-> 0, isDirSlice |-> <<>>, tarBuffer |-> EmptyBuffer,
                  twErr |-> NoErr, twOpen |-> TRUE, returned |-> "none", err |-> NoErr,
                  closedAtBytes |-> FALSE] : n \in 0..MaxPaths }
    /\ fs = <<>>
    /\ df = Idle /\ rs = Idle /\ ev = Idle
    /\ mk = Idle /\ img = Idle /\ cfg = Idle /\ wc = Idle /\ dk = Idle
    /\ TarIdle

notContextVars == <<fs, df, rs, ev, mk, img, cfg, wc, dk, tarVars>>

\* A write through tw: the entry reaches the buffer unless the write fails.
CtxWrite(entry, ok) ==
    IF ok THEN [ctx EXCEPT !.tarBuffer.entries = Append(@, entry)]
    ELSE [ctx EXCEPT !.twErr = ErrTarWrite]

\* `return nil, err`: the result is fixed, the deferred close is still to run.
CtxReturns(c, bytes, e) ==
    /\ ctx' = [c EXCEPT !.returned = bytes, !.err = e, !.closedAtBytes = ~c.twOpen]
    /\ pc' = "ctxDefer"
    /\ UNCHANGED notContextVars

\* bindMouseHostFileToTar of the next path succeeds: its entry data<i+1> is in the
\* buffer and isDir is appended to r.isDirSlice.
CtxBindMount ==
    /\ pc = "ctxLoop" /\ ctx.i < ctx.n
    /\ \E isDirResult \in BOOLEAN :
          LET name == "data" \o Itoa(ctx.i + 1) \o (IF isDirResult THEN "/" ELSE "")
              c == CtxWrite([Name |-> name, data |-> ""], TRUE)
          IN  ctx' = [c EXCEPT !.i = @ + 1, !.isDirSlice = Append(@, isDirResult)]
    /\ UNCHANGED <<pc, notContextVars>>

\* bindMouseHostFileToTar of the next path fails.
CtxBindMountFails ==
    /\ pc = "ctxLoop" /\ ctx.i < ctx.n
    /\ \E e \in {ErrBindMount, ErrTarWrite} :
          CtxReturns([ctx EXCEPT !.twErr = IF e = ErrTarWrite THEN e ELSE @], "nil", e)

\* The header and the content of the Dockerfile are written and the writer flushed.
CtxDockerfile ==
    /\ pc = "ctxLoop" /\ ctx.i = ctx.n
    /\ ctx' = CtxWrite([Name |-> "Dockerfile", data |-> DockerfileOf(ctx.isDirSlice)], TRUE)
    /\ pc' = "ctxBytes"
    /\ UNCHANGED notContextVars

\* tw.WriteHeader, tw.Write or tw.Flush of the Dockerfile fails.
CtxDockerfileFails ==
    /\ pc = "ctxLoop" /\ ctx.i = ctx.n
    /\ CtxReturns(CtxWrite([Name |-> "Dockerfile", data |-> ""], FALSE), "nil", ErrTarWrite)

\* `return tarBuffer.Bytes(), nil`: the bytes are what the buffer holds now.
CtxBytes ==
    /\ pc = "ctxBytes"
    /\ CtxReturns(ctx, ctx.tarBuffer, NoErr)

\* The deferred tw.Close(): a writer without an error writes the trailer.
CtxDeferredClose ==
    /\ pc = "ctxDefer"
    /\ ctx' = [ctx EXCEPT !.twOpen = FALSE,
                          !.tarBuffer.trailer = (ctx.twErr = NoErr)]
    /\ pc' = "ctxDone"
    /\ UNCHANGED notContextVars

NextContext ==
    \/ CtxBindMount
    \/ CtxBindMountFails
    \/ CtxDockerfile
    \/ CtxDockerfileFails
    \/ CtxBytes
    \/ CtxDeferredClose

SpecContext == InitContext /\ [][NextContext]_vars

\* The build context was returned without error.
ContextReturned == pc = "ctxDone" /\ ctx.err = NoErr

\* The Dockerfile is the last entry of the bytes, after data1..dataN in order.
DockerfileLast(bytes) ==
    /\ Len(bytes.entries) = ctx.n + 1
    /\ bytes.entries[ctx.n + 1].Name = "Dockerfile"
    /\ \A k \in 1..ctx.n :
          bytes.entries[k].Name \in { "data" \o Itoa(k), "data" \o Itoa(k) \o "/" }

\* C19: the writer is closed before the bytes of the buffer are taken, so the bytes
\* handed to the build service hold everything the writer emits, the trailer of the
\* close included, and the Dockerfile is the last entry, after data1..dataN.
C19_ClosedBeforeBytes ==
    ContextReturned =>
        /\ ctx.closedAtBytes
        /\ ctx.returned = ctx.tarBuffer
        /\ ctx.returned.trailer
        /\ DockerfileLast(ctx.returned)

\* What holds of the code: the bytes are taken from the flushed but open writer, so
\* they hold every entry, the Dockerfile last, and not the trailer the close writes.
BytesBeforeClose ==
    ContextReturned =>
        /\ ~ctx.closedAtBytes /\ ~ctx.twOpen
        /\ ctx.returned.entries = ctx.tarBuffer.entries
        /\ ~ctx.returned.trailer /\ ctx.tarBuffer.trailer
        /\ DockerfileLast(ctx.returned)

-----------------------------------------------------------------------------
(* PullImage and PushImage.                                                *)

ErrImagePullOrPush == "pull or push error"
ErrWait == "wait error"

InitDocker ==
    /\ pc = "dkCall"
    /\ dk \in { [op |-> o, readerOpen |-> FALSE, opened |-> FALSE, digest |-> "",
                 err |-> NoErr] : o \in {"PullImage", "PushImage"} }
    /\ fs = <<>>
    /\ df = Idle /\ rs = Idle /\ ev = Idle
    /\ mk = Idle /\ img = Idle /\ cfg = Idle /\ wc = Idle /\ ctx = Idle
    /\ TarIdle

notDockerVars == <<fs, df, rs, ev, mk, img, cfg, wc, ctx, tarVars>>

\* puller.ImagePull or pusher.ImagePush fails: no reader is returned.
DkImageFails ==
    /\ pc = "dkCall"
    /\ dk' = [dk EXCEPT !.err = ErrImagePullOrPush]
    /\ pc' = "dkDone"
    /\ UNCHANGED notDockerVars

\* puller.ImagePull or pusher.ImagePush returns the reader; its close is deferred.
DkImage ==
    /\ pc = "dkCall"
    /\ dk' = [dk EXCEPT !.readerOpen = TRUE, !.opened = TRUE]
    /\ pc' = "dkWait"
    /\ UNCHANGED notDockerVars

\* Wait returns a digest or an error, and the deferred close runs.
DkWait ==
    /\ pc = "dkWait"
    /\ \E r \in { [digest |-> DigestA, err |-> NoErr], [digest |-> "", err |-> ErrWait] } :
          dk' = [dk EXCEPT !.digest = r.digest, !.err = r.err, !.readerOpen = FALSE]
    /\ pc' = "dkDone"
    /\ UNCHANGED notDockerVars

NextDocker ==
    \/ DkImageFails
    \/ DkImage
    \/ DkWait

SpecDocker == InitDocker /\ [][NextDocker]_vars

-----------------------------------------------------------------------------
(* Release of the resources.                                               *)

\* C18: when the function that acquired it has returned, by whatever path, every file
\* handle of the materializer, the tar writer of the build context, the body of the
\* build response and the reader of a pull or a push is closed.
C18_ResourcesReleased ==
    /\ pc = "done" => openFds = {}
    /\ pc = "ctxDone" => ~ctx.twOpen
    /\ pc = "imgDone" => ~img.bodyOpen
    /\ pc = "dkDone" => ~dk.readerOpen

\* What holds of the code: the same, but for the body of the build response, which
\* buildVolumeInitImage leaves open on every path that received it.
ResourcesReleasedButBuildResponse ==
    /\ pc = "done" => openFds = {}
    /\ pc = "ctxDone" => ~ctx.twOpen
    /\ pc = "imgDone" => (img.bodyOpen <=> img.bodyOpened)
    /\ pc = "dkDone" => ~dk.readerOpen

====
